---- MODULE Spec2Model ----
(***************************************************************************)
(* The conversation engine of src/user-preferences/backend-user-preferences.py *)
(* (class Session and its helpers) as a state machine.  Text is a TLA+      *)
(* string, read character by character with SubSeq; Optional[T] is a tuple  *)
(* of length 0 (None) or 1; a dict is a function; a list is a sequence.     *)
(***************************************************************************)
EXTENDS Integers, Sequences, FiniteSets, TLC

VARIABLES
    stage,        \* Session.stage, the name of the Stage member
    data,         \* Session.data, the SessionData record
    debug_clean,  \* Session.debug_clean
    user_input,   \* the argument of the latest process call, as passed
    event,        \* what the latest operation did: the return taken by process
    payload,      \* Optional: the payload the latest process call returned
    raised,       \* Optional: the exception the latest process call raised
    log,          \* the lines the latest process call handed to the logger
    log_failed,   \* whether a handler of the logger failed during that call
    peer,         \* a second Session of the same process: its stage, data, payload
    normalized,   \* a text and what Session._normalize_text returned for it
    summaries     \* how many payloads so far had show_summary set

vars == <<stage, data, debug_clean, user_input, event, payload, raised, log, log_failed, peer, normalized, summaries>>

\* ------------------------------------------------------------------------
\* Optional values and small helpers
\* ------------------------------------------------------------------------

\* Python's None.
None == <<>>

\* A value that is not None.
Some(x) == <<x>>

\* The value held by a Some.
Val(o) == o[1]

\* str(x) of an Optional[str], as an f-string formats it.
Fmt(o) == IF o = None THEN "None" ELSE o[1]

\* The i-th character of a string.
Ch(s, i) == SubSeq(s, i, i)

SetMin(S) == CHOOSE x \in S : \A y \in S : x <= y

SetMax(S) == CHOOSE x \in S : \A y \in S : y <= x

\* ------------------------------------------------------------------------
\* Characters
\* ------------------------------------------------------------------------

LowerLetters == "abcdefghijklmnopqrstuvwxyz"

UpperLetters == "ABCDEFGHIJKLMNOPQRSTUVWXYZ"

DecimalDigits == "0123456789"

CharsOf(s) == { Ch(s, i) : i \in 1..Len(s) }

LowerChars == CharsOf(LowerLetters)

UpperChars == CharsOf(UpperLetters)

DecimalChars == CharsOf(DecimalDigits)

IsLower(c) == c \in LowerChars

IsUpper(c) == c \in UpperChars

\* [A-Za-z]
IsAlpha(c) == IsLower(c) \/ IsUpper(c)

\* [0-9]
IsDecimal(c) == c \in DecimalChars

\* [0-9a-zA-Z]
IsAlnum(c) == IsAlpha(c) \/ IsDecimal(c)

\* \w of the re module, on the characters the inputs use
IsWordChar(c) == IsAlnum(c) \/ c = "_"

\* \s and str.strip(): white space
IsSpace(c) == c \in {" ", "\t", "\n", "\r", "\f"}

\* Characters str.isdigit() accepts and int() rejects (a superscript digit).
SuperscriptDigits == {"²", "³", "¹"}

\* str.isdigit() on one character.
IsDigitChar(c) == IsDecimal(c) \/ c \in SuperscriptDigits

\* The value of a decimal digit.
DigitValue(c) == (CHOOSE i \in 1..10 : Ch(DecimalDigits, i) = c) - 1

\* str.lower() on one character.
LowerChar(c) ==
    IF IsUpper(c)
    THEN Ch(LowerLetters, CHOOSE i \in 1..26 : Ch(UpperLetters, i) = c)
    ELSE c

\* str.upper() on one character.
UpperChar(c) ==
    IF IsLower(c)
    THEN Ch(UpperLetters, CHOOSE i \in 1..26 : Ch(LowerLetters, i) = c)
    ELSE c

\* ------------------------------------------------------------------------
\* String functions of the standard library, as the code uses them
\* ------------------------------------------------------------------------

\* str.lower()
lower[s \in STRING] == IF s = "" THEN "" ELSE LowerChar(Ch(s, 1)) \o lower[SubSeq(s, 2, Len(s))]

\* str.strip()
strip[s \in STRING] ==
    LET keep == { i \in 1..Len(s) : ~IsSpace(Ch(s, i)) }
    IN  IF keep = {} THEN "" ELSE SubSeq(s, SetMin(keep), SetMax(keep))

\* "," in s, and the like
Contains[s \in STRING, c \in STRING] == \E i \in 1..Len(s) : Ch(s, i) = c

\* sep.join(xs)
join[sep \in STRING, xs \in Seq(STRING)] ==
    IF xs = <<>> THEN ""
    ELSE IF Len(xs) = 1 THEN xs[1]
    ELSE xs[1] \o sep \o join[sep, Tail(xs)]

\* The maximal runs of the characters of s whose index is in keep, from
\* index i on, cur being the run that the characters before i have begun.
RunsFrom[s \in STRING, keep \in SUBSET Int, i \in Int, cur \in STRING] ==
    IF i > Len(s) THEN (IF cur = "" THEN <<>> ELSE << cur >>)
    ELSE IF i \in keep THEN RunsFrom[s, keep, i + 1, cur \o Ch(s, i)]
    ELSE (IF cur = "" THEN <<>> ELSE << cur >>) \o RunsFrom[s, keep, i + 1, ""]

\* The maximal runs of the characters of s whose index is in keep, in order.
RunsOf[s \in STRING, keep \in SUBSET Int] == RunsFrom[s, keep, 1, ""]

\* The pieces of s between the separators from index i on, cur being the
\* piece that the characters before i have begun.
SplitFrom[s \in STRING, sep \in STRING, i \in Int, cur \in STRING] ==
    IF i > Len(s) THEN << cur >>
    ELSE IF Ch(s, i) = sep THEN << cur >> \o SplitFrom[s, sep, i + 1, ""]
    ELSE SplitFrom[s, sep, i + 1, cur \o Ch(s, i)]

\* s.split(sep) for a one-character sep: the pieces between the separators,
\* empty ones included.
split[s \in STRING, sep \in STRING] == SplitFrom[s, sep, 1, ""]

\* re.sub(r"\s+", " ", s)
collapse_ws[s \in STRING] ==
    IF s = "" THEN ""
    ELSE IF IsSpace(Ch(s, 1))
         THEN IF Len(s) >= 2 /\ IsSpace(Ch(s, 2))
              THEN collapse_ws[SubSeq(s, 2, Len(s))]
              ELSE " " \o collapse_ws[SubSeq(s, 2, Len(s))]
         ELSE Ch(s, 1) \o collapse_ws[SubSeq(s, 2, Len(s))]

\* x.title() of a string: first cased letter of each run of letters upper, the
\* rest lower.
title_from[s \in STRING, prevCased \in BOOLEAN] ==
    IF s = "" THEN ""
    ELSE LET c == Ch(s, 1)
         IN  (IF IsAlpha(c) THEN (IF prevCased THEN LowerChar(c) ELSE UpperChar(c)) ELSE c)
             \o title_from[SubSeq(s, 2, Len(s)), IsAlpha(c)]

title[s \in STRING] == title_from[s, FALSE]

\* A match of the word w in s at position i, ignoring case, between two \b.
WordAt[s \in STRING, w \in STRING, i \in Int] ==
    LET n  == Len(s)
        j  == i + Len(w) - 1
        wc(k) == k >= 1 /\ k <= n /\ IsWordChar(Ch(s, k))
    IN  /\ j <= n
        /\ lower[SubSeq(s, i, j)] = w
        /\ wc(i - 1) # wc(i)
        /\ wc(j) # wc(j + 1)

\* re.search(r"\b(and|&|plus)\b", s, flags=re.IGNORECASE) is not None
has_conjunction[s \in STRING] ==
    \E w \in {"and", "&", "plus"} : \E i \in 1..Len(s) : WordAt[s, w, i]

\* re.search(r"[A-Za-z]", s) is not None
has_letter[s \in STRING] == \E i \in 1..Len(s) : IsAlpha(Ch(s, i))

\* ------------------------------------------------------------------------
\* Domain vocabulary
\* ------------------------------------------------------------------------

\* The English stopword list of the NLTK corpus that line 52 loads.
NLTK_STOPWORDS ==
    { "a", "about", "above", "after", "again", "against", "ain", "all", "am", "an", "and", "any",
      "are", "aren", "aren't", "as", "at", "be", "because", "been", "before", "being", "below",
      "between", "both", "but", "by", "can", "couldn", "couldn't", "d", "did", "didn", "didn't", "do",
      "does", "doesn", "doesn't", "doing", "don", "don't", "down", "during", "each", "few", "for",
      "from", "further", "had", "hadn", "hadn't", "has", "hasn", "hasn't", "have", "haven", "haven't",
      "having", "he", "her", "here", "hers", "herself", "him", "himself", "his", "how", "i", "if",
      "in", "into", "is", "isn", "isn't", "it", "it's", "its", "itself", "just", "ll", "m", "ma",
      "me", "mightn", "mightn't", "more", "most", "mustn", "mustn't", "my", "myself", "needn",
      "needn't", "no", "nor", "not", "now", "o", "of", "off", "on", "once", "only", "or", "other",
      "our", "ours", "ourselves", "out", "over", "own", "re", "s", "same", "shan", "shan't", "she",
      "she's", "should", "should've", "shouldn", "shouldn't", "so", "some", "such", "t", "than",
      "that", "that'll", "the", "their", "theirs", "them", "themselves", "then", "there", "these",
      "they", "this", "those", "through", "to", "too", "under", "until", "up", "ve", "very", "was",
      "wasn", "wasn't", "we", "were", "weren", "weren't", "what", "when", "where", "which", "while",
      "who", "whom", "why", "will", "with", "won", "won't", "wouldn", "wouldn't", "y", "you", "you'd",
      "you'll", "you're", "you've", "your", "yours", "yourself", "yourselves" }

\* Fashion domain keep list (the set literal of lines 63-119).
DOMAIN_KEEP ==
    { "2000s", "7/8", "70s", "80s", "90s", "above", "abstract", "acid", "acrylic", "airplane",
      "airport", "americana", "androgynous", "animal", "ankle", "anorak", "apres-ski", "apresski",
      "apricot", "aqua", "argyle", "artisan", "artisanal", "artsy", "athflow", "athleisure",
      "athletic", "autumn", "avant-garde", "avantgarde", "backpack", "bag", "baggy", "balletcore",
      "band", "barbiecore", "beach", "beanie", "beige", "below", "belt", "belted", "biker", "black",
      "black-tie", "blacktie", "blazer", "blouse", "blue", "blush", "boatneck", "bohemian", "boho",
      "bomber", "bootcut", "boots", "boucle", "bow-tie", "bowtie", "boxy", "breasted", "breathable",
      "bridesmaid", "briefcase", "brogue", "brogues", "brown", "brunch", "brushed", "burgundy",
      "business", "business-casual", "business-formal", "businesscasual", "businessformal", "button",
      "button-down", "buttondown", "buttoned", "buttons", "cable", "camel", "camisole", "camo",
      "camouflage", "canvas", "cap", "cardigan", "cargo", "cargos", "cashmere", "casual", "charcoal",
      "checked", "checks", "chelsea", "chevron", "chic", "chiffon", "chinos", "chocolate", "classic",
      "clean", "client-meeting", "clientmeeting", "clogs", "club", "clubbing", "coastal",
      "coastal-grandma", "coastalgrandma", "coat", "cocktail", "collar", "color-block", "colorblock",
      "commute", "concert", "conference", "contemporary", "coral", "corduroy", "cottagecore",
      "cotton", "cowboy", "cowgirl", "cozy", "cream", "crew", "crewneck", "crimson", "crisp", "crop",
      "cropped", "cross-body", "crossbody", "cruise", "cuff", "cuffed", "curved-hem", "curvedhem",
      "curvy", "cyan", "cyberpunk", "dark", "dark-academia", "dark-wash", "darkacademia", "darkwash",
      "dart", "date", "date-night", "datenight", "denim", "derby", "destroyed", "dinner",
      "distressed", "dolman", "double", "down", "drawstring", "dress", "drop", "duffel", "duffle",
      "earthy", "ecru", "edgy", "elastane", "elastic", "elasticated", "elegant", "elevated",
      "emerald", "emo", "errands", "espadrille", "espadrilles", "evening", "fade", "faded", "fall",
      "faux", "festival", "fitted", "flare", "flared", "flats", "fleece", "flip-flops", "flipflops",
      "floral", "forest", "formal", "fuchsia", "full-length", "full-zip", "fulllength", "fullzip",
      "gabardine", "gala", "garment-dyed", "garmentdyed", "gender-neutral", "genderneutral",
      "geometric", "gilet", "gingham", "glossy", "gloves", "gold", "golden", "gorpcore", "goth",
      "graduation", "graphite", "gray", "green", "grey", "groomsman", "grunge", "gym", "half-zip",
      "halfzip", "hat", "heavyweight", "heels", "hem", "henley", "heritage", "herringbone", "high",
      "hiking", "holiday", "home", "hood", "hooded", "hoodie", "houndstooth", "indie", "indiesleaze",
      "indigo", "insulated", "interview", "ivory", "jacket", "jacquard", "jeans", "joggers", "jumper",
      "jumpsuit", "khaki", "knee", "lace", "lapel", "lavender", "leather", "leggings", "leopard",
      "light", "light-wash", "lightwash", "lightweight", "lilac", "lime", "lined", "linen", "loafer",
      "loafers", "long", "long-line", "long-sleeve", "longline", "longsleeve", "loose", "loungewear",
      "low", "luxe", "luxury", "lyocell", "magenta", "mandarin", "maroon", "maternity", "matte",
      "maxi", "maximalist", "meeting", "merino", "mermaidcore", "mesh", "metal", "metallic",
      "micro-check", "micro-stripe", "microcheck", "microstripe", "mid", "mid-wash", "midi",
      "midnight", "midwash", "midweight", "military", "mini", "minimal", "minimalist", "minimalistic",
      "mint", "mocha", "mockneck", "modal", "modern", "monk-strap", "monkstrap", "monochromatic",
      "monochrome", "mules", "mustard", "nautical", "navy", "neon", "networking", "night-out",
      "nightout", "normcore", "notch", "nylon", "off-white", "office", "office-party", "officeparty",
      "offwhite", "old-money", "oldmoney", "olive", "orange", "organza", "outdoor", "overcoat",
      "overshirt", "oversized", "oxford", "packable", "paisley", "pants", "parka", "party", "pastel",
      "peach", "peacoat", "peak", "petite", "picnic", "pin-stripe", "pink", "pinstripe", "plaid",
      "plain", "playsuit", "pleat", "pleated", "point", "polished", "polka-dot", "polkadot", "polo",
      "polyester", "pool", "poplin", "preppy", "presentation", "professional", "puffer", "punk",
      "purple", "quick-dry", "quickdry", "quiet-luxury", "quietluxury", "quilted", "raglan",
      "rainproof", "rainwear", "rainy", "raw", "raw-hem", "rawdenim", "rawhem", "rayon", "red",
      "refined", "regencycore", "regular", "relaxed", "resort", "retro", "retro-futuristic",
      "retrofuturistic", "ribbed", "rinse", "rise", "rock", "rose", "rugged", "running", "rust",
      "safari", "sand", "sandals", "satchel", "satin", "scarf", "scoop", "seersucker", "selvedge",
      "sequin", "sequins", "shacket", "shawl", "shearling", "sherpa", "shiny", "shirt", "shoes",
      "short", "short-sleeve", "shorts", "shortsleeve", "silk", "silver", "single", "ski", "skinny",
      "skirt", "slacks", "slate", "sleek", "sleeve", "sleeveless", "slides", "slim", "smart",
      "smart-casual", "smartcasual", "sneakers", "snowboard", "socks", "soft", "solid",
      "sophisticated", "spandex", "split-hem", "splithem", "sporty", "spread", "spring",
      "stonewashed", "straight", "streetwear", "stretch", "stretchy", "striped", "stripes", "suede",
      "suit", "suiting", "summer", "sunglasses", "sweater", "sweatpants", "sweatshirt", "t-shirt",
      "tailored", "tall", "tan", "tank", "tapered", "taupe", "teal", "team-dinner", "teamdinner",
      "techwear", "tee", "tencel", "terracotta", "three-quarter", "threequarter", "tie", "tights",
      "top", "tote", "trainers", "training", "travel", "trench", "trousers", "trucker", "tshirt",
      "turquoise", "turtleneck", "twill", "unlined", "utilitarian", "utility", "v-neck", "vacation",
      "velvet", "vest", "vintage", "vintage-wash", "vintagewash", "violet", "viscose", "vneck",
      "waffle", "waist", "wallet", "warm", "washed", "watch", "water-repellent", "water-resistant",
      "waterproof", "waterrepellent", "waxed", "wedding", "wedding-guest", "weddingguest", "weekend",
      "western", "whiskered", "whiskering", "white", "white-tie", "whitetie", "wide", "windbreaker",
      "window-pane", "windowpane", "windproof", "wine", "winter", "wool", "work", "work-from-home",
      "workfromhome", "workwear", "wrinkle-free", "wrinklefree", "y2k", "yellow", "yoke", "zebra",
      "zip", "zipper" }

\* _STOPWORDS = _NLTK_STOPWORDS - _DOMAIN_KEEP
STOPWORDS == NLTK_STOPWORDS \ DOMAIN_KEEP

\* Item-type tokens (the set literal of lines 125-144).
ITEM_TYPE_TOKENS ==
    { "activewear", "anorak", "athleisure", "backpack", "bag", "beanie", "belt", "biker", "blazer",
      "blouse", "bomber", "boots", "bottoms", "bottomwear", "bowtie", "briefcase", "brogue",
      "brogues", "camisole", "cap", "cardigan", "cargo", "cargos", "chelsea", "chinos", "clogs",
      "coat", "coats", "crossbody", "derby", "dress", "dresses", "duffel", "duffle", "espadrille",
      "espadrilles", "eyewear", "flats", "flip-flops", "flipflops", "footwear", "gilet", "gloves",
      "hat", "headwear", "heels", "hoodie", "jacket", "jackets", "jean", "jeans", "joggers", "jumper",
      "jumpers", "jumpsuit", "leggings", "lingerie", "loafer", "loafers", "loungewear", "monk-strap",
      "monkstrap", "mules", "nightwear", "outerwear", "overcoat", "overshirt", "oxford", "pants",
      "parka", "peacoat", "playsuit", "polo", "puffer", "sandals", "satchel", "scarf", "shacket",
      "shirt", "shirts", "shoes", "shorts", "skirt", "skirts", "slacks", "sleepwear", "slides",
      "sneakers", "socks", "suit", "suits", "sunglasses", "sweater", "sweatpants", "sweatshirt",
      "swimwear", "t-shirt", "tank", "tee", "tees", "tie", "tights", "top", "tops", "topwear", "tote",
      "trainers", "trench", "trousers", "trucker", "tshirt", "underwear", "vest", "wallet", "watch",
      "windbreaker" }

\* DOMAIN_HINTS = set(_DOMAIN_KEEP) | set(ITEM_TYPE_TOKENS)
DOMAIN_HINTS == DOMAIN_KEEP \cup ITEM_TYPE_TOKENS
\* ------------------------------------------------------------------------
\* Numbers: float(), int(), str.isdigit()
\* ------------------------------------------------------------------------

\* The number a string of decimal digits writes.
DigitsValue[s \in STRING] ==
    IF s = "" THEN 0
    ELSE 10 * DigitsValue[SubSeq(s, 1, Len(s) - 1)] + DigitValue(Ch(s, Len(s)))

without_underscores[s \in STRING] ==
    IF s = "" THEN ""
    ELSE (IF Ch(s, 1) = "_" THEN "" ELSE Ch(s, 1)) \o without_underscores[SubSeq(s, 2, Len(s))]

\* A group of digits of a numeric literal: decimal digits, with single
\* underscores allowed between two digits.
IsDigitGroup[s \in STRING] ==
    /\ s # ""
    /\ \A i \in 1..Len(s) :
          \/ IsDecimal(Ch(s, i))
          \/ /\ Ch(s, i) = "_"
             /\ i > 1 /\ i < Len(s)
             /\ IsDecimal(Ch(s, i - 1)) /\ IsDecimal(Ch(s, i + 1))

\* The index of the first character of s that is in cs, Len(s) + 1 if none.
FirstIndex[s \in STRING, cs \in SUBSET STRING] ==
    LET hits == { i \in 1..Len(s) : Ch(s, i) \in cs }
    IN  IF hits = {} THEN Len(s) + 1 ELSE SetMin(hits)

\* The parts of a mantissa with its point at dpos.
DotParts[neg \in BOOLEAN, body \in STRING, mant \in STRING, hasexp \in BOOLEAN, expneg \in BOOLEAN, expdig \in STRING, dpos \in Int] ==
    [ neg     |-> neg,
      body    |-> body,
      int     |-> SubSeq(mant, 1, dpos - 1),
      hasdot  |-> dpos <= Len(mant),
      frac    |-> SubSeq(mant, dpos + 1, Len(mant)),
      hasexp  |-> hasexp,
      expneg  |-> expneg,
      expdig  |-> expdig ]

\* The parts of an unsigned literal with its exponent mark at epos.
ExpParts[neg \in BOOLEAN, body \in STRING, epos \in Int] ==
    LET mant  == SubSeq(body, 1, epos - 1)
        expo  == SubSeq(body, epos + 1, Len(body))
        esign == expo # "" /\ Ch(expo, 1) \in {"+", "-"}
    IN  DotParts[neg, body, mant, epos <= Len(body),
                 esign /\ Ch(expo, 1) = "-",
                 IF esign THEN SubSeq(expo, 2, Len(expo)) ELSE expo,
                 FirstIndex[mant, {"."}]]

\* The parts of a float literal: sign, integer digits, fraction digits,
\* exponent sign and digits ("" where a part is missing).
FloatParts[s \in STRING] ==
    LET signed == s # "" /\ Ch(s, 1) \in {"+", "-"}
    IN  IF signed
        THEN ExpParts[Ch(s, 1) = "-", SubSeq(s, 2, Len(s)), FirstIndex[SubSeq(s, 2, Len(s)), {"e", "E"}]]
        ELSE ExpParts[FALSE, s, FirstIndex[s, {"e", "E"}]]

\* float(s) does not raise ValueError (s is already stripped).
IsFloatLiteral[s \in STRING] ==
    \E p \in { FloatParts[s] } :
        \/ lower[p.body] \in {"inf", "infinity", "nan"}
        \/ /\ p.int = "" \/ IsDigitGroup[p.int]
           /\ p.frac = "" \/ IsDigitGroup[p.frac]
           /\ p.int # "" \/ p.frac # ""
           /\ p.hasexp => IsDigitGroup[p.expdig]

RECURSIVE Canonical(_, _, _)
\* The float neg, m * 10^e in lowest terms: e <= 0, and m has no trailing
\* zero when e < 0.
Canonical(neg, m, e) ==
    IF m = 0 THEN [kind |-> "finite", neg |-> FALSE, m |-> 0, e |-> 0]
    ELSE IF e < 0 /\ m % 10 = 0 THEN Canonical(neg, m \div 10, e + 1)
    ELSE IF e > 0 THEN Canonical(neg, m * 10, e - 1)
    ELSE [kind |-> "finite", neg |-> neg, m |-> m, e |-> e]

\* What FloatParts yields.
FloatPartsType ==
    [ neg : BOOLEAN, body : STRING, int : STRING, hasdot : BOOLEAN, frac : STRING,
      hasexp : BOOLEAN, expneg : BOOLEAN, expdig : STRING ]

\* The float that the parts of a literal write.
FloatOfParts[p \in FloatPartsType] ==
    LET low == lower[p.body]
        ev  == IF p.hasexp THEN DigitsValue[without_underscores[p.expdig]] ELSE 0
        fr  == without_underscores[p.frac]
    IN  IF low = "nan" THEN [kind |-> "nan", neg |-> p.neg, m |-> 0, e |-> 0]
        ELSE IF low \in {"inf", "infinity"} THEN [kind |-> "inf", neg |-> p.neg, m |-> 0, e |-> 0]
        ELSE Canonical(p.neg,
                       DigitsValue[without_underscores[p.int] \o fr],
                       (IF p.expneg THEN 0 - ev ELSE ev) - Len(fr))

\* float(s) for a literal s: a decimal number m * 10^e, an infinity or a NaN.
\* Exact for the short literals the inputs use.
FloatValue[s \in STRING] == FloatOfParts[FloatParts[s]]

\* The float of a whole number.
Float(n) == Canonical(n < 0, IF n < 0 THEN 0 - n ELSE n, 0)

\* lo <= f for a float f and a whole number lo (false for a NaN).
FloatGE(f, lo) ==
    CASE f.kind = "nan" -> FALSE
      [] f.kind = "inf" -> ~f.neg
      [] OTHER -> lo * 10^(0 - f.e) <= (IF f.neg THEN 0 - f.m ELSE f.m)

\* f <= hi for a float f and a whole number hi (false for a NaN).
FloatLE(f, hi) ==
    CASE f.kind = "nan" -> FALSE
      [] f.kind = "inf" -> f.neg
      [] OTHER -> (IF f.neg THEN 0 - f.m ELSE f.m) <= hi * 10^(0 - f.e)

\* int(f) of a finite float: truncation towards zero.
FloatToInt(f) ==
    LET q == f.m \div 10^(0 - f.e)
    IN  IF f.neg THEN 0 - q ELSE q

\* str.isdigit()
isdigit[s \in STRING] == s # "" /\ \A i \in 1..Len(s) : IsDigitChar(Ch(s, i))

\* int(s) raises ValueError (for an s that isdigit() accepts).
IntRaises[s \in STRING] == \E i \in 1..Len(s) : ~IsDecimal(Ch(s, i))

\* int(s) of a string of decimal digits.
IntValue[s \in STRING] == DigitsValue[s]

RECURSIVE NatToStr(_)
NatToStr(n) ==
    IF n < 10 THEN Ch(DecimalDigits, n + 1)
    ELSE NatToStr(n \div 10) \o Ch(DecimalDigits, (n % 10) + 1)

\* str(n) of an int.
IntToStr(n) == IF n < 0 THEN "-" \o NatToStr(0 - n) ELSE NatToStr(n)

\* ------------------------------------------------------------------------
\* Normalizer and validators
\* ------------------------------------------------------------------------

\* [0-9a-zA-Z\-]
IsAlnumOrHyphen(c) == IsAlnum(c) \/ c = "-"

\* [t for t in re.split(r"[^0-9a-zA-Z\-]+", s) if t]
tokens_hyphen[s \in STRING] == RunsOf[s, { i \in 1..Len(s) : IsAlnumOrHyphen(Ch(s, i)) }]

\* [t for t in re.split(r"[^0-9a-zA-Z]+", s) if t]
tokens_alnum[s \in STRING] == RunsOf[s, { i \in 1..Len(s) : IsAlnum(Ch(s, i)) }]

\* Session._tokenize
tokenize(text) == tokens_alnum[lower[text]]

\* Fault: white space collapsed two characters at a time, in one pass.
collapse_pairs[s \in STRING] ==
    IF s = "" THEN ""
    ELSE IF IsSpace(Ch(s, 1))
         THEN IF Len(s) >= 2 /\ IsSpace(Ch(s, 2))
              THEN " " \o collapse_pairs[SubSeq(s, 3, Len(s))]
              ELSE " " \o collapse_pairs[SubSeq(s, 2, Len(s))]
         ELSE Ch(s, 1) \o collapse_pairs[SubSeq(s, 2, Len(s))]

\* Fault: _normalize_text collapsing white space with that substitution.
normalize_text_collapses_pairs(value) == collapse_pairs[lower[strip[value]]]

\* Session._normalize_text
normalize_text(value) == collapse_ws[lower[strip[value]]]

\* [t for t in tokens if t not in _STOPWORDS]
without_stopwords[tokens \in Seq(STRING)] ==
    IF tokens = <<>> THEN <<>>
    ELSE (IF Head(tokens) \notin STOPWORDS THEN << Head(tokens) >> ELSE <<>>)
         \o without_stopwords[Tail(tokens)]

\* Session._clean_description
clean_description(text) == join[" ", without_stopwords[tokenize(text)]]

\* The elements of a sequence, as a set.
Range[xs \in Seq(STRING)] == { xs[i] : i \in 1..Len(xs) }

\* sum(1 for t in tokens if t in ITEM_TYPE_TOKENS), for a list of tokens
count_item_tokens[tokens \in Seq(STRING)] == Cardinality({ i \in 1..Len(tokens) : tokens[i] \in ITEM_TYPE_TOKENS })

\* Session._has_item_type_token with min_hits = 1
has_item_type_token(text) ==
    /\ text # ""
    /\ LET s      == lower[text]
           tokens == Range[tokens_hyphen[s]] \cup Range[tokenize(s)]
       IN  Cardinality(tokens \cap ITEM_TYPE_TOKENS) >= 1

\* Session._has_domain_words with min_hits = 1
has_domain_words(text) ==
    /\ text # ""
    /\ LET s      == lower[text]
           tokens == Range[tokens_hyphen[s]] \cup Range[tokenize(s)]
       IN  Cardinality(tokens \cap DOMAIN_HINTS) >= 1

\* Session._looks_meaningful_style
looks_meaningful_style(text) == has_domain_words(text)

\* Session._is_number
is_number(value) == value # None /\ Val(value) # "" /\ IsFloatLiteral[Val(value)]

\* not user_input, for an Optional[str]
Falsy(o) == o = None \/ Val(o) = ""

\* The strings of a list that are not empty, in order.
non_empty[xs \in Seq(STRING)] ==
    IF xs = <<>> THEN <<>>
    ELSE (IF Head(xs) # "" THEN << Head(xs) >> ELSE <<>>) \o non_empty[Tail(xs)]

\* [chunk.strip() for chunk in user_input.split(",") if chunk.strip()]
raw_chunks_of[text \in STRING] == non_empty[[ i \in 1..Len(split[text, ","]) |-> strip[split[text, ","][i]] ]]

\* The test the loop of lines 464-474 makes on one chunk.
chunk_suspicious(chunk) ==
    \/ has_conjunction[chunk]
    \/ count_item_tokens[tokens_hyphen[lower[chunk]]] >= 2

\* The chunks in which _has_item_type_token finds nothing (lines 485-488).
chunks_without_item[chunks \in Seq(STRING)] ==
    IF chunks = <<>> THEN <<>>
    ELSE (IF ~has_item_type_token(Head(chunks)) THEN << Head(chunks) >> ELSE <<>>)
         \o chunks_without_item[Tail(chunks)]

\* ------------------------------------------------------------------------
\* Stage, SessionData, payload
\* ------------------------------------------------------------------------

\* class Stage: the names of its members, in declaration order.
Stages ==
    << "START", "MODE_SELECTION", "MODE_STYLE",
       "OUTFIT_ITEMS", "OUTFIT_OCCASION", "OUTFIT_ITEM_DESC",
       "ITEM_TYPE", "ITEM_MATCH_WARDROBE", "ITEM_WARDROBE_ITEMS", "ITEM_DESC",
       "BODY_HEIGHT", "BODY_WEIGHT", "BODY_AGE", "COMPLETE" >>

\* {} of Python: a dict with no key.
EmptyDict == [ k \in {} |-> None ]

\* d[k] = v on a dict.
DictSet(d, k, v) == [ x \in DOMAIN d \cup {k} |-> IF x = k THEN v ELSE d[x] ]

\* SessionData(): every field at its default.
NewSessionData ==
    [ mode                          |-> None,
      style                         |-> None,
      outfit_items_raw              |-> None,
      outfit_items_list             |-> <<>>,
      outfit_items_pending          |-> <<>>,
      current_item                  |-> None,
      occasion                      |-> None,
      single_item_type              |-> None,
      match_existing                |-> None,
      wardrobe_items_to_match       |-> None,
      descriptions                  |-> EmptyDict,
      body                          |-> EmptyDict,
      style_clean                   |-> None,
      outfit_items_list_clean       |-> <<>>,
      single_item_type_clean        |-> None,
      wardrobe_items_to_match_clean |-> None,
      descriptions_clean            |-> EmptyDict ]

\* Fault: SessionData declaring its dict fields with one default object for
\* every instance.
default_factory_shared(session, f) == << "SessionData", f >>

\* SessionData, lines 186-205: the list and dict fields are declared with
\* field(default_factory=...), which builds one new object for each
\* instance. An object is named here by the instance it was built for and
\* the field it was built for.
default_factory(session, f) == << session, f >>

\* The fields the handlers change in place (lines 581-582, 736-737, 762,
\* 784, 804). The list fields are rebound to lists built by the handler
\* before anything is popped (lines 507-509).
ChangedInPlace == { "descriptions", "descriptions_clean", "body" }

\* The fields for which two instances hold one and the same object.
SharedFields ==
    { f \in ChangedInPlace : default_factory("self", f) = default_factory("peer", f) }

\* The data of one session as read after a call on the other session has
\* left new_data there: an object both hold shows the other's changes.
seen_through_shared(d, new_data) ==
    [ f \in DOMAIN d |-> IF f \in SharedFields THEN new_data[f] ELSE d[f] ]

\* Session._generate_user_summary.  The pictograph that opens each line of
\* the summary is left out, and the bullet between measurements is " * ".
generate_user_summary(d) ==
    LET looking ==
            IF d.mode = Some("outfit")
            THEN << "Looking for: A complete " \o Fmt(d.style) \o " outfit" >>
                 \o (IF d.outfit_items_list # <<>>
                     THEN << "Items: " \o join[", ", d.outfit_items_list] >> ELSE <<>>)
                 \o (IF ~Falsy(d.occasion)
                     THEN << "Occasion: " \o title[Val(d.occasion)] \o " wear" >> ELSE <<>>)
            ELSE << "Looking for: A " \o Fmt(d.style) \o " " \o Fmt(d.single_item_type) >>
                 \o (IF d.match_existing = Some(TRUE) /\ ~Falsy(d.wardrobe_items_to_match)
                     THEN << "To match with: " \o Val(d.wardrobe_items_to_match) >> ELSE <<>>)
        measurements ==
            (IF "height_cm" \in DOMAIN d.body
             THEN << IntToStr(FloatToInt(d.body["height_cm"])) \o "cm" >> ELSE <<>>)
            \o (IF "weight_kg" \in DOMAIN d.body
                THEN << IntToStr(FloatToInt(d.body["weight_kg"])) \o "kg" >> ELSE <<>>)
            \o (IF "age" \in DOMAIN d.body
                THEN << IntToStr(d.body["age"]) \o " years old" >> ELSE <<>>)
        profile ==
            IF DOMAIN d.body # {} /\ measurements # <<>>
            THEN << "Profile: " \o join[" * ", measurements] >> ELSE <<>>
    IN  join["\n", looking \o profile]

\* Fault: _snapshot adding the shadow fields on the debug flag only.
snapshot_clean_on_flag_only(st, d, dbg) ==
    [ mode                    |-> d.mode,
      style                   |-> d.style,
      occasion                |-> d.occasion,
      outfit_items            |-> d.outfit_items_list,
      single_item_type        |-> d.single_item_type,
      match_existing          |-> d.match_existing,
      wardrobe_items_to_match |-> d.wardrobe_items_to_match,
      descriptions            |-> d.descriptions,
      body                    |-> d.body ]
    @@ (IF st = "COMPLETE" THEN "user_summary" :> generate_user_summary(d) ELSE EmptyDict)
    @@ (IF dbg
        THEN "clean_debug" :>
               [ style_clean                   |-> d.style_clean,
                 outfit_items_list_clean       |-> d.outfit_items_list_clean,
                 single_item_type_clean        |-> d.single_item_type_clean,
                 wardrobe_items_to_match_clean |-> d.wardrobe_items_to_match_clean,
                 descriptions_clean            |-> d.descriptions_clean ]
        ELSE EmptyDict)

\* Session._snapshot: a dict, here a function from its keys.
snapshot(st, d, dbg) ==
    LET base ==
            [ mode                    |-> d.mode,
              style                   |-> d.style,
              occasion                |-> d.occasion,
              outfit_items            |-> d.outfit_items_list,
              single_item_type        |-> d.single_item_type,
              match_existing          |-> d.match_existing,
              wardrobe_items_to_match |-> d.wardrobe_items_to_match,
              descriptions            |-> d.descriptions,
              body                    |-> d.body ]
        summary ==
            IF st = "COMPLETE"
            THEN "user_summary" :> generate_user_summary(d)
            ELSE EmptyDict
        clean ==
            IF st = "COMPLETE" \/ dbg
            THEN "clean_debug" :>
                   [ style_clean                   |-> d.style_clean,
                     outfit_items_list_clean       |-> d.outfit_items_list_clean,
                     single_item_type_clean        |-> d.single_item_type_clean,
                     wardrobe_items_to_match_clean |-> d.wardrobe_items_to_match_clean,
                     descriptions_clean            |-> d.descriptions_clean ]
            ELSE EmptyDict
    IN  base @@ summary @@ clean

\* The arguments of a call of Session._payload, defaults filled in.
Reply(messages, expect, choices, done, show_summary) ==
    [ messages |-> messages, expect |-> expect, choices |-> choices,
      done |-> done, show_summary |-> show_summary ]

\* self._payload(messages, expect="text")
Text(messages) == Reply(messages, "text", <<>>, FALSE, FALSE)

\* self._payload(messages, expect="choice", choices=choices)
Choice(messages, choices) == Reply(messages, "choice", choices, FALSE, FALSE)

\* Session._payload: the dict it builds from the session's state as it is
\* when the handler returns.
payload_of(st, d, dbg, r) ==
    [ messages     |-> r.messages,
      stage        |-> st,
      expect       |-> r.expect,
      choices      |-> r.choices,
      done         |-> r.done,
      show_summary |-> r.show_summary,
      data         |-> snapshot(st, d, dbg) ]

\* A payload that process returned earlier, as its holder reads it once the
\* session's data has become d.  _snapshot puts the session's own
\* descriptions, body and descriptions_clean dicts into the payload, not
\* copies, and the handlers update these dicts in place (lines 581-582,
\* 736-737, 762, 784, 804); the two item lists are replaced, never updated
\* in place (lines 507-508), and every other field is an immutable value.
payload_view(p, d) ==
    [ p EXCEPT !.data =
        [ k \in DOMAIN p.data |->
            CASE k = "descriptions" -> d.descriptions
              [] k = "body"         -> d.body
              [] k = "clean_debug"  -> [ p.data[k] EXCEPT !.descriptions_clean = d.descriptions_clean ]
              [] OTHER              -> p.data[k] ] ]

\* What a handler leaves behind: the session's stage and data, the return it
\* took ("accept", "reject", ...), and either the reply it hands to _payload
\* or the exception it raises.
Returns(st, d, ev, r) == [ stage |-> st, data |-> d, event |-> ev, reply |-> Some(r), exc |-> None ]

Raises(st, d, e) == [ stage |-> st, data |-> d, event |-> "raise", reply |-> None, exc |-> Some(e) ]

\* ------------------------------------------------------------------------
\* Stage handlers: each takes the session's data and the (stripped) input
\* and yields the stage and data it leaves and what it returns.
\* ------------------------------------------------------------------------

\* Fault: _enter_mode_selection without its assignment to self.stage.
enter_mode_selection_keeps_stage(d) ==
    Returns("START", d, "bootstrap",
            Choice(<< "Hi, I'm your shopping assistant.",
                      "Are you looking for a complete outfit or a specific item?" >>,
                   << "outfit", "item" >>))

\* Session._enter_mode_selection
enter_mode_selection(d) ==
    Returns("MODE_SELECTION", d, "bootstrap",
            Choice(<< "Hi, I'm your shopping assistant.",
                      "Are you looking for a complete outfit or a specific item?" >>,
                   << "outfit", "item" >>))

\* Fault: _handle_mode_selection storing the answer before validating it.
handle_mode_selection_stores_first(d, inp) ==
    LET d1 == [d EXCEPT !.mode = IF Falsy(inp) THEN None ELSE Some(lower[Val(inp)])]
    IN  IF Falsy(inp) \/ lower[Val(inp)] \notin {"outfit", "item"}
        THEN Returns("MODE_SELECTION", d1, "reject",
                     Choice(<< "Please choose: 'outfit' or 'item'." >>, << "outfit", "item" >>))
        ELSE Returns("MODE_STYLE", d1, "accept",
                     Text(<< "Awesome! What is the style or mood you're looking for?" >>))

\* Fault: _handle_mode_selection asking again without the choices.
handle_mode_selection_reprompts_as_text(d, inp) ==
    IF Falsy(inp) \/ lower[Val(inp)] \notin {"outfit", "item"}
    THEN Returns("MODE_SELECTION", d, "reject",
                 Text(<< "Please choose: 'outfit' or 'item'." >>))
    ELSE LET d1 == [d EXCEPT !.mode = Some(lower[Val(inp)])]
         IN  IF d1.mode = Some("outfit")
             THEN Returns("MODE_STYLE", d1, "accept",
                          Text(<< "Great! Let's find you an outfit. What is the style or mood you're looking for?" >>))
             ELSE Returns("MODE_STYLE", d1, "accept",
                          Text(<< "Awesome! What is the style or mood you're looking for?" >>))

\* Session._handle_mode_selection
handle_mode_selection(d, inp) ==
    IF Falsy(inp) \/ lower[Val(inp)] \notin {"outfit", "item"}
    THEN Returns("MODE_SELECTION", d, "reject",
                 Choice(<< "Please choose: 'outfit' or 'item'." >>, << "outfit", "item" >>))
    ELSE LET d1 == [d EXCEPT !.mode = Some(lower[Val(inp)])]
         IN  IF d1.mode = Some("outfit")
             THEN Returns("MODE_STYLE", d1, "accept",
                          Text(<< "Great! Let's find you an outfit. What is the style or mood you're looking for?" >>))
             ELSE Returns("MODE_STYLE", d1, "accept",
                          Text(<< "Awesome! What is the style or mood you're looking for?" >>))

\* Fault: _handle_mode_style without its test of the mode.
handle_mode_style_ignores_mode(d, inp) ==
    IF Falsy(inp) \/ ~has_letter[Val(inp)] \/ ~looks_meaningful_style(Val(inp))
    THEN Returns("MODE_STYLE", d, "reject", Text(<< "Please describe a style or mood." >>))
    ELSE Returns("OUTFIT_ITEMS",
                 [d EXCEPT !.style = inp, !.style_clean = Some(normalize_text(Val(inp)))],
                 "accept",
                 Text(<< "What clothing items do you want to include?" >>))

\* Session._handle_mode_style
handle_mode_style(d, inp) ==
    IF Falsy(inp)
    THEN Returns("MODE_STYLE", d, "reject", Text(<< "Please describe a style or mood." >>))
    ELSE IF ~has_letter[Val(inp)]
    THEN Returns("MODE_STYLE", d, "reject",
                 Text(<< "Please describe a style or mood with words (not just numbers)." >>))
    ELSE IF ~looks_meaningful_style(Val(inp))
    THEN Returns("MODE_STYLE", d, "reject",
                 Text(<< "That doesn't look like a fashion style. Try terms like 'casual', 'smart', 'minimal', 'streetwear'." >>))
    ELSE LET d1 == [d EXCEPT !.style = inp,
                             !.style_clean = Some(normalize_text(Val(inp)))]
         IN  IF d1.mode = Some("outfit")
             THEN Returns("OUTFIT_ITEMS", d1, "accept",
                          Text(<< "Got it! You're looking for a " \o Fmt(d1.style) \o " outfit.",
                                  "What clothing items do you want to include?",
                                  "Please separate items with commas (e.g., 'jeans, t-shirt, blazer')." >>))
             ELSE Returns("ITEM_TYPE", d1, "accept",
                          Text(<< "Got it! You're looking for a " \o Fmt(d1.style) \o " item.",
                                  "What type of item is it? (e.g. 'jacket', 'sneakers')" >>))

\* Fault: the pivot recording its item in the outfit list as well.
outfit_items_no_comma_keeps_list(d, text) ==
    LET chunk   == strip[text]
        matches == count_item_tokens[tokens_hyphen[lower[chunk]]]
    IN  IF has_conjunction[chunk] \/ matches # 1
        THEN Returns("OUTFIT_ITEMS", d, "reject",
                     Text(<< "Please separate items with commas, e.g., 'jeans, t-shirt, blazer'." >>))
        ELSE Returns("ITEM_MATCH_WARDROBE",
                     [d EXCEPT !.mode = Some("item"),
                               !.single_item_type = Some(chunk),
                               !.single_item_type_clean = Some(normalize_text(chunk)),
                               !.outfit_items_list = << chunk >>],
                     "accept",
                     Choice(<< "Looks like you're after a single item.",
                               "Item: " \o chunk,
                               "Do you want it to match your current wardrobe? (yes/no)" >>,
                            << "yes", "no" >>))

\* Fault: the pivot test made before the conjunction test.
outfit_items_no_comma_ignores_conjunction(d, text) ==
    LET chunk   == strip[text]
        matches == count_item_tokens[tokens_hyphen[lower[chunk]]]
    IN  IF matches = 1
        THEN Returns("ITEM_MATCH_WARDROBE",
                     [d EXCEPT !.mode = Some("item"),
                               !.single_item_type = Some(chunk),
                               !.single_item_type_clean = Some(normalize_text(chunk))],
                     "accept",
                     Choice(<< "Looks like you're after a single item.",
                               "Item: " \o chunk,
                               "Do you want it to match your current wardrobe? (yes/no)" >>,
                            << "yes", "no" >>))
        ELSE Returns("OUTFIT_ITEMS", d, "reject",
                     Text(<< "Please separate items with commas, e.g., 'jeans, t-shirt, blazer'." >>))

\* Fault: the pivot storing the lowercased answer as the item.
outfit_items_no_comma_stores_lowercase(d, text) ==
    LET chunk   == strip[text]
        matches == count_item_tokens[tokens_hyphen[lower[chunk]]]
    IN  IF has_conjunction[chunk] \/ matches # 1
        THEN Returns("OUTFIT_ITEMS", d, "reject",
                     Text(<< "Please separate items with commas, e.g., 'jeans, t-shirt, blazer'." >>))
        ELSE Returns("ITEM_MATCH_WARDROBE",
                     [d EXCEPT !.mode = Some("item"),
                               !.single_item_type = Some(lower[chunk]),
                               !.single_item_type_clean = Some(normalize_text(chunk))],
                     "accept",
                     Choice(<< "Looks like you're after a single item.",
                               "Item: " \o chunk,
                               "Do you want it to match your current wardrobe? (yes/no)" >>,
                            << "yes", "no" >>))

\* Fault: the pivot of _handle_outfit_items sending the session to ITEM_TYPE.
outfit_items_no_comma_pivots_to_item_type(d, text) ==
    LET chunk   == strip[text]
        matches == count_item_tokens[tokens_hyphen[lower[chunk]]]
    IN  IF has_conjunction[chunk]
        THEN Returns("OUTFIT_ITEMS", d, "reject",
                     Text(<< "Please separate items with commas, e.g., 'jeans, t-shirt, blazer'." >>))
        ELSE IF matches = 1
        THEN Returns("ITEM_TYPE",
                     [d EXCEPT !.mode = Some("item"),
                               !.single_item_type = Some(chunk),
                               !.single_item_type_clean = Some(normalize_text(chunk))],
                     "accept",
                     Choice(<< "Looks like you're after a single item.",
                               "Item: " \o chunk,
                               "Do you want it to match your current wardrobe? (yes/no)" >>,
                            << "yes", "no" >>))
        ELSE IF matches = 0
        THEN Returns("OUTFIT_ITEMS", d, "reject",
                     Text(<< "I couldn't recognize a clothing item there. Try a name like 'blazer' or list items with commas: 'jeans, t-shirt, blazer'." >>))
        ELSE Returns("OUTFIT_ITEMS", d, "reject",
                     Text(<< "It looks like multiple items are in the same part. Please separate them with commas, e.g., 'jeans, t-shirt, blazer'." >>))

\* Fault: the pivot of _handle_outfit_items leaving mode as it was.
outfit_items_no_comma_keeps_mode(d, text) ==
    LET chunk   == strip[text]
        matches == count_item_tokens[tokens_hyphen[lower[chunk]]]
    IN  IF has_conjunction[chunk]
        THEN Returns("OUTFIT_ITEMS", d, "reject",
                     Text(<< "Please separate items with commas, e.g., 'jeans, t-shirt, blazer'." >>))
        ELSE IF matches = 1
        THEN Returns("ITEM_MATCH_WARDROBE",
                     [d EXCEPT !.single_item_type = Some(chunk),
                               !.single_item_type_clean = Some(normalize_text(chunk))],
                     "accept",
                     Choice(<< "Looks like you're after a single item.",
                               "Item: " \o chunk,
                               "Do you want it to match your current wardrobe? (yes/no)" >>,
                            << "yes", "no" >>))
        ELSE IF matches = 0
        THEN Returns("OUTFIT_ITEMS", d, "reject",
                     Text(<< "I couldn't recognize a clothing item there. Try a name like 'blazer' or list items with commas: 'jeans, t-shirt, blazer'." >>))
        ELSE Returns("OUTFIT_ITEMS", d, "reject",
                     Text(<< "It looks like multiple items are in the same part. Please separate them with commas, e.g., 'jeans, t-shirt, blazer'." >>))

\* Session._handle_outfit_items, the branch of an input without a comma
\* (lines 418-458).
outfit_items_no_comma(d, text) ==
    LET chunk   == strip[text]
        matches == count_item_tokens[tokens_hyphen[lower[chunk]]]
    IN  IF has_conjunction[chunk]
        THEN Returns("OUTFIT_ITEMS", d, "reject",
                     Text(<< "Please separate items with commas, e.g., 'jeans, t-shirt, blazer'." >>))
        ELSE IF matches = 1
        THEN Returns("ITEM_MATCH_WARDROBE",
                     [d EXCEPT !.mode = Some("item"),
                               !.single_item_type = Some(chunk),
                               !.single_item_type_clean = Some(normalize_text(chunk))],
                     "accept",
                     Choice(<< "Looks like you're after a single item.",
                               "Item: " \o chunk,
                               "Do you want it to match your current wardrobe? (yes/no)" >>,
                            << "yes", "no" >>))
        ELSE IF matches = 0
        THEN Returns("OUTFIT_ITEMS", d, "reject",
                     Text(<< "I couldn't recognize a clothing item there. Try a name like 'blazer' or list items with commas: 'jeans, t-shirt, blazer'." >>))
        ELSE Returns("OUTFIT_ITEMS", d, "reject",
                     Text(<< "It looks like multiple items are in the same part. Please separate them with commas, e.g., 'jeans, t-shirt, blazer'." >>))

\* Fault: the comma branch of _handle_outfit_items switching the mode as the
\* pivot does.
outfit_items_with_commas_sets_mode(d, text) ==
    LET raw_chunks == raw_chunks_of[text]
    IN  IF \/ \E i \in 1..Len(raw_chunks) : chunk_suspicious(raw_chunks[i])
           \/ chunks_without_item[raw_chunks] # <<>>
           \/ raw_chunks = <<>>
        THEN Returns("OUTFIT_ITEMS", d, "reject",
                     Text(<< "Use item names like 'jeans, t-shirt, blazer'." >>))
        ELSE Returns("OUTFIT_OCCASION",
                     [d EXCEPT !.mode = Some("item"),
                               !.outfit_items_raw = Some(text),
                               !.outfit_items_list = raw_chunks,
                               !.outfit_items_list_clean =
                                   [ i \in 1..Len(raw_chunks) |-> normalize_text(raw_chunks[i]) ],
                               !.outfit_items_pending = raw_chunks],
                     "accept",
                     Choice(<< "Is it for a specific occasion or daily wear?" >>,
                            << "specific", "daily" >>))

\* Fault: _handle_outfit_items accepting a list without filling
\* outfit_items_pending.
outfit_items_with_commas_forgets_pending(d, text) ==
    LET raw_chunks     == raw_chunks_of[text]
        suspicious     == \E i \in 1..Len(raw_chunks) : chunk_suspicious(raw_chunks[i])
        invalid_chunks == chunks_without_item[raw_chunks]
        items_display  == raw_chunks
        items_clean    == [ i \in 1..Len(items_display) |-> normalize_text(items_display[i]) ]
    IN  IF suspicious
        THEN Returns("OUTFIT_ITEMS", d, "reject",
                     Text(<< "It looks like multiple items are in the same part. Please put each item in its own comma-separated entry.",
                             "Example: 'jeans, t-shirt, blazer' (not 't-shirt hat')." >>))
        ELSE IF invalid_chunks # <<>>
        THEN Returns("OUTFIT_ITEMS", d, "reject",
                     Text(<< "I couldn't find a clothing item in: " \o join[", ", invalid_chunks] \o ".",
                             "Use item names like 'jeans, t-shirt, blazer'." >>))
        ELSE IF items_display = <<>>
        THEN Returns("OUTFIT_ITEMS", d, "reject",
                     Text(<< "I couldn't parse any items. Try something like: jeans, white t-shirt, blazer" >>))
        ELSE LET d1 == [d EXCEPT !.outfit_items_raw = Some(text),
                                 !.outfit_items_list = items_display,
                                 !.outfit_items_list_clean = items_clean]
             IN  Returns("OUTFIT_OCCASION", d1, "accept",
                         Choice(<< "Perfect! You're looking for an outfit with: "
                                   \o join[", ", d1.outfit_items_list]
                                   \o ". Is it for a specific occasion or daily wear?" >>,
                                << "specific", "daily" >>))

\* Fault: _handle_outfit_items taking a comma list of one item for a single
\* item.
outfit_items_with_commas_pivots_on_one(d, text) ==
    LET raw_chunks     == raw_chunks_of[text]
        suspicious     == \E i \in 1..Len(raw_chunks) : chunk_suspicious(raw_chunks[i])
        invalid_chunks == chunks_without_item[raw_chunks]
        items_display  == raw_chunks
        items_clean    == [ i \in 1..Len(items_display) |-> normalize_text(items_display[i]) ]
    IN  IF suspicious
        THEN Returns("OUTFIT_ITEMS", d, "reject",
                     Text(<< "It looks like multiple items are in the same part. Please put each item in its own comma-separated entry.",
                             "Example: 'jeans, t-shirt, blazer' (not 't-shirt hat')." >>))
        ELSE IF invalid_chunks # <<>>
        THEN Returns("OUTFIT_ITEMS", d, "reject",
                     Text(<< "I couldn't find a clothing item in: " \o join[", ", invalid_chunks] \o ".",
                             "Use item names like 'jeans, t-shirt, blazer'." >>))
        ELSE IF items_display = <<>>
        THEN Returns("OUTFIT_ITEMS", d, "reject",
                     Text(<< "I couldn't parse any items. Try something like: jeans, white t-shirt, blazer" >>))
        ELSE LET d1 == [d EXCEPT !.outfit_items_raw = Some(text),
                                 !.outfit_items_list = items_display,
                                 !.outfit_items_list_clean = items_clean,
                                 !.outfit_items_pending = items_display,
                                 !.single_item_type = IF Len(items_display) = 1
                                                      THEN Some(items_display[1]) ELSE @,
                                 !.mode = IF Len(items_display) = 1 THEN Some("item") ELSE @]
             IN  Returns("OUTFIT_OCCASION", d1, "accept",
                         Choice(<< "Perfect! You're looking for an outfit with: "
                                   \o join[", ", d1.outfit_items_list]
                                   \o ". Is it for a specific occasion or daily wear?" >>,
                                << "specific", "daily" >>))

\* Session._handle_outfit_items, the branch of an input with a comma
\* (lines 460-521).
outfit_items_with_commas(d, text) ==
    LET raw_chunks     == raw_chunks_of[text]
        suspicious     == \E i \in 1..Len(raw_chunks) : chunk_suspicious(raw_chunks[i])
        invalid_chunks == chunks_without_item[raw_chunks]
        items_display  == raw_chunks
        items_clean    == [ i \in 1..Len(items_display) |-> normalize_text(items_display[i]) ]
    IN  IF suspicious
        THEN Returns("OUTFIT_ITEMS", d, "reject",
                     Text(<< "It looks like multiple items are in the same part. Please put each item in its own comma-separated entry.",
                             "Example: 'jeans, t-shirt, blazer' (not 't-shirt hat')." >>))
        ELSE IF invalid_chunks # <<>>
        THEN Returns("OUTFIT_ITEMS", d, "reject",
                     Text(<< "I couldn't find a clothing item in: " \o join[", ", invalid_chunks] \o ".",
                             "Use item names like 'jeans, t-shirt, blazer'." >>))
        ELSE IF items_display = <<>>
        THEN Returns("OUTFIT_ITEMS", d, "reject",
                     Text(<< "I couldn't parse any items. Try something like: jeans, white t-shirt, blazer" >>))
        ELSE LET d1 == [d EXCEPT !.outfit_items_raw = Some(text),
                                 !.outfit_items_list = items_display,
                                 !.outfit_items_list_clean = items_clean,
                                 !.outfit_items_pending = items_display]
             IN  Returns("OUTFIT_OCCASION", d1, "accept",
                         Choice(<< "Perfect! You're looking for an outfit with: "
                                   \o join[", ", d1.outfit_items_list]
                                   \o ". Is it for a specific occasion or daily wear?" >>,
                                << "specific", "daily" >>))

\* Session._handle_outfit_items
handle_outfit_items(d, inp) ==
    IF Falsy(inp)
    THEN Returns("OUTFIT_ITEMS", d, "reject", Text(<< "List the clothing items separated by commas." >>))
    ELSE IF ~Contains[Val(inp), ","]
    THEN outfit_items_no_comma(d, Val(inp))
    ELSE outfit_items_with_commas(d, Val(inp))

\* Fault: _handle_outfit_occasion reading the first pending item without
\* taking it off the queue.
handle_outfit_occasion_keeps_pending(d, inp) ==
    IF Falsy(inp) \/ lower[Val(inp)] \notin {"specific", "daily"}
    THEN Returns("OUTFIT_OCCASION", d, "reject",
                 Choice(<< "Choose 'specific' or 'daily'." >>, << "specific", "daily" >>))
    ELSE LET d1 == [d EXCEPT !.occasion = Some(lower[Val(inp)]),
                             !.current_item = Some(Head(d.outfit_items_pending))]
         IN  Returns("OUTFIT_ITEM_DESC", d1, "accept",
                     Text(<< "Describe the " \o Fmt(d1.current_item) \o " (color, fit, etc.)." >>))

\* Fault: _handle_outfit_occasion popping the first item without making it
\* the current one.
handle_outfit_occasion_skips_current(d, inp) ==
    IF Falsy(inp) \/ lower[Val(inp)] \notin {"specific", "daily"}
    THEN Returns("OUTFIT_OCCASION", d, "reject",
                 Choice(<< "Choose 'specific' or 'daily'." >>, << "specific", "daily" >>))
    ELSE LET d1 == [d EXCEPT !.occasion = Some(lower[Val(inp)])]
         IN  IF d1.outfit_items_pending = <<>>
             THEN Raises("OUTFIT_ITEM_DESC", d1, "IndexError")
             ELSE LET d2 == [d1 EXCEPT !.outfit_items_pending = Tail(d1.outfit_items_pending)]
                  IN  Returns("OUTFIT_ITEM_DESC", d2, "accept",
                              Text(<< "Describe the " \o Fmt(d2.current_item) \o " (color, fit, etc.)." >>))

\* Session._handle_outfit_occasion
handle_outfit_occasion(d, inp) ==
    IF Falsy(inp) \/ lower[Val(inp)] \notin {"specific", "daily"}
    THEN Returns("OUTFIT_OCCASION", d, "reject",
                 Choice(<< "Choose 'specific' or 'daily'." >>, << "specific", "daily" >>))
    ELSE LET d1 == [d EXCEPT !.occasion = Some(lower[Val(inp)])]
         IN  IF d1.outfit_items_pending = <<>>
             THEN Raises("OUTFIT_ITEM_DESC", d1, "IndexError")
             ELSE LET d2 == [d1 EXCEPT !.current_item = Some(Head(d1.outfit_items_pending)),
                                       !.outfit_items_pending = Tail(d1.outfit_items_pending)]
                  IN  Returns("OUTFIT_ITEM_DESC", d2, "accept",
                              Text(<< "Describe the " \o Fmt(d2.current_item) \o " (color, fit, etc.)." >>))

\* Fault: _handle_outfit_item_desc never taking the next item off the
\* pending queue.
handle_outfit_item_desc_never_pops(d, inp) ==
    IF Falsy(inp) \/ ~has_domain_words(Val(inp)) \/ d.current_item = None
    THEN Returns("OUTFIT_ITEM_DESC", d, "reject",
                 Text(<< "Please describe the " \o Fmt(d.current_item) \o "." >>))
    ELSE LET item == Val(d.current_item)
             d1   == [d EXCEPT !.descriptions = DictSet(@, item, Val(inp)),
                               !.descriptions_clean = DictSet(@, item, clean_description(Val(inp)))]
         IN  IF d1.outfit_items_pending # <<>>
             THEN Returns("OUTFIT_ITEM_DESC", d1, "accept",
                          Text(<< "Great. Next item: describe the " \o Fmt(d1.current_item) \o "." >>))
             ELSE Returns("BODY_HEIGHT", d1, "accept",
                          Text(<< "Thanks. Lastly, your height (in cm)?" >>))

\* Fault: _handle_outfit_item_desc taking the next item off the queue before
\* it stores the description.
handle_outfit_item_desc_pops_first(d, inp) ==
    IF Falsy(inp) \/ ~has_domain_words(Val(inp)) \/ d.current_item = None
    THEN Returns("OUTFIT_ITEM_DESC", d, "reject",
                 Text(<< "Please describe the " \o Fmt(d.current_item) \o "." >>))
    ELSE IF d.outfit_items_pending # <<>>
    THEN LET item == Head(d.outfit_items_pending)
             d1   == [d EXCEPT !.current_item = Some(item),
                               !.outfit_items_pending = Tail(d.outfit_items_pending),
                               !.descriptions = DictSet(@, item, Val(inp)),
                               !.descriptions_clean = DictSet(@, item, clean_description(Val(inp)))]
         IN  Returns("OUTFIT_ITEM_DESC", d1, "accept",
                     Text(<< "Great. Next item: describe the " \o Fmt(d1.current_item) \o "." >>))
    ELSE LET item == Val(d.current_item)
             d1   == [d EXCEPT !.descriptions = DictSet(@, item, Val(inp)),
                               !.descriptions_clean = DictSet(@, item, clean_description(Val(inp)))]
         IN  Returns("BODY_HEIGHT", d1, "accept",
                     Text(<< "Thanks. Lastly, your height (in cm)?" >>))

\* Fault: _handle_outfit_item_desc resetting current_item once the last item
\* is described.
handle_outfit_item_desc_clears_current(d, inp) ==
    IF Falsy(inp) \/ ~has_domain_words(Val(inp)) \/ d.current_item = None
    THEN Returns("OUTFIT_ITEM_DESC", d, "reject",
                 Text(<< "Please describe the " \o Fmt(d.current_item) \o "." >>))
    ELSE LET item == Val(d.current_item)
             d1   == [d EXCEPT !.descriptions = DictSet(@, item, Val(inp)),
                               !.descriptions_clean = DictSet(@, item, clean_description(Val(inp)))]
         IN  IF d1.outfit_items_pending # <<>>
             THEN LET d2 == [d1 EXCEPT !.current_item = Some(Head(d1.outfit_items_pending)),
                                       !.outfit_items_pending = Tail(d1.outfit_items_pending)]
                  IN  Returns("OUTFIT_ITEM_DESC", d2, "accept",
                              Text(<< "Great. Next item: describe the " \o Fmt(d2.current_item) \o "." >>))
             ELSE Returns("BODY_HEIGHT", [d1 EXCEPT !.current_item = None], "accept",
                          Text(<< "Thanks. Lastly, your height (in cm)?" >>))

\* Fault: _handle_outfit_item_desc taking the next item from the end of the
\* pending queue.
handle_outfit_item_desc_takes_last(d, inp) ==
    IF Falsy(inp)
    THEN Returns("OUTFIT_ITEM_DESC", d, "reject",
                 Text(<< "Please describe the " \o Fmt(d.current_item) \o "." >>))
    ELSE IF ~has_domain_words(Val(inp))
    THEN Returns("OUTFIT_ITEM_DESC", d, "reject",
                 Text(<< "Please include fashion details for the " \o Fmt(d.current_item)
                         \o " (e.g., color, material, fit like 'navy, slim, cotton')." >>))
    ELSE IF d.current_item = None
    THEN Raises("OUTFIT_ITEM_DESC", d, "AssertionError")
    ELSE LET item == Val(d.current_item)
             d1   == [d EXCEPT !.descriptions = DictSet(@, item, Val(inp)),
                               !.descriptions_clean = DictSet(@, item, clean_description(Val(inp)))]
         IN  IF d1.outfit_items_pending # <<>>
             THEN LET d2 == [d1 EXCEPT !.current_item = Some(d1.outfit_items_pending[Len(d1.outfit_items_pending)]),
                                       !.outfit_items_pending = SubSeq(d1.outfit_items_pending, 1, Len(d1.outfit_items_pending) - 1)]
                  IN  Returns("OUTFIT_ITEM_DESC", d2, "accept",
                              Text(<< "Great. Next item: describe the " \o Fmt(d2.current_item) \o "." >>))
             ELSE Returns("BODY_HEIGHT", d1, "accept",
                          Text(<< "Thanks. Lastly, your height (in cm)?" >>))

\* Session._handle_outfit_item_desc
handle_outfit_item_desc(d, inp) ==
    IF Falsy(inp)
    THEN Returns("OUTFIT_ITEM_DESC", d, "reject",
                 Text(<< "Please describe the " \o Fmt(d.current_item) \o "." >>))
    ELSE IF ~has_domain_words(Val(inp))
    THEN Returns("OUTFIT_ITEM_DESC", d, "reject",
                 Text(<< "Please include fashion details for the " \o Fmt(d.current_item)
                         \o " (e.g., color, material, fit like 'navy, slim, cotton')." >>))
    ELSE IF d.current_item = None
    THEN Raises("OUTFIT_ITEM_DESC", d, "AssertionError")
    ELSE LET item == Val(d.current_item)
             d1   == [d EXCEPT !.descriptions = DictSet(@, item, Val(inp)),
                               !.descriptions_clean = DictSet(@, item, clean_description(Val(inp)))]
         IN  IF d1.outfit_items_pending # <<>>
             THEN LET d2 == [d1 EXCEPT !.current_item = Some(Head(d1.outfit_items_pending)),
                                       !.outfit_items_pending = Tail(d1.outfit_items_pending)]
                  IN  Returns("OUTFIT_ITEM_DESC", d2, "accept",
                              Text(<< "Great. Next item: describe the " \o Fmt(d2.current_item) \o "." >>))
             ELSE Returns("BODY_HEIGHT", d1, "accept",
                          Text(<< "Thanks. Lastly, your height (in cm)?" >>))

\* Fault: _handle_item_type satisfied with any domain word.
handle_item_type_accepts_domain_words(d, inp) ==
    IF Falsy(inp) \/ ~has_domain_words(Val(inp))
    THEN Returns("ITEM_TYPE", d, "reject", Text(<< "What type of item is it?" >>))
    ELSE Returns("ITEM_MATCH_WARDROBE",
                 [d EXCEPT !.single_item_type = inp,
                           !.single_item_type_clean = Some(normalize_text(Val(inp)))],
                 "accept",
                 Choice(<< "Do you want it to match your current wardrobe? (yes/no)" >>,
                        << "yes", "no" >>))

\* Session._handle_item_type
handle_item_type(d, inp) ==
    IF Falsy(inp)
    THEN Returns("ITEM_TYPE", d, "reject", Text(<< "What type of item is it?" >>))
    ELSE IF ~has_item_type_token(Val(inp))
    THEN Returns("ITEM_TYPE", d, "reject",
                 Text(<< "Please name a clothing item (e.g., 'jacket', 'sneakers', 'jeans')." >>))
    ELSE Returns("ITEM_MATCH_WARDROBE",
                 [d EXCEPT !.single_item_type = inp,
                           !.single_item_type_clean = Some(normalize_text(Val(inp)))],
                 "accept",
                 Choice(<< "Do you want it to match your current wardrobe? (yes/no)" >>,
                        << "yes", "no" >>))

\* Fault: _handle_item_match re-prompting for a choice without its choices.
handle_item_match_forgets_choices(d, inp) ==
    IF Falsy(inp) \/ lower[Val(inp)] \notin {"yes", "no"}
    THEN Returns("ITEM_MATCH_WARDROBE", d, "reject",
                 Choice(<< "Please answer 'yes' or 'no'." >>, <<>>))
    ELSE LET d1 == [d EXCEPT !.match_existing = Some(lower[Val(inp)] = "yes")]
         IN  IF Val(d1.match_existing)
             THEN Returns("ITEM_WARDROBE_ITEMS", d1, "accept",
                          Text(<< "Which items in your wardrobe would you like to match the "
                                  \o Fmt(d1.single_item_type)
                                  \o " with? (e.g. 'dark jeans, white shirt, brown belt')" >>))
             ELSE Returns("ITEM_DESC", d1, "accept",
                          Text(<< "Describe the " \o Fmt(d1.single_item_type)
                                  \o " (color, material, fit, etc.)." >>))

\* Fault: _handle_item_match comparing the answer without lowercasing it.
handle_item_match_case_sensitive(d, inp) ==
    IF Falsy(inp) \/ Val(inp) \notin {"yes", "no"}
    THEN Returns("ITEM_MATCH_WARDROBE", d, "reject",
                 Choice(<< "Please answer 'yes' or 'no'." >>, << "yes", "no" >>))
    ELSE LET d1 == [d EXCEPT !.match_existing = Some(Val(inp) = "yes")]
         IN  IF Val(d1.match_existing)
             THEN Returns("ITEM_WARDROBE_ITEMS", d1, "accept",
                          Text(<< "Which items in your wardrobe would you like to match the "
                                  \o Fmt(d1.single_item_type)
                                  \o " with? (e.g. 'dark jeans, white shirt, brown belt')" >>))
             ELSE Returns("ITEM_DESC", d1, "accept",
                          Text(<< "Describe the " \o Fmt(d1.single_item_type)
                                  \o " (color, material, fit, etc.)." >>))

\* Fault: _handle_item_match asking for wardrobe items whatever the answer.
handle_item_match_always_asks(d, inp) ==
    IF Falsy(inp) \/ lower[Val(inp)] \notin {"yes", "no"}
    THEN Returns("ITEM_MATCH_WARDROBE", d, "reject",
                 Choice(<< "Please answer 'yes' or 'no'." >>, << "yes", "no" >>))
    ELSE LET d1 == [d EXCEPT !.match_existing = Some(lower[Val(inp)] = "yes")]
         IN  Returns("ITEM_WARDROBE_ITEMS", d1, "accept",
                     Text(<< "Which items in your wardrobe would you like to match the "
                             \o Fmt(d1.single_item_type)
                             \o " with? (e.g. 'dark jeans, white shirt, brown belt')" >>))

\* Session._handle_item_match
handle_item_match(d, inp) ==
    IF Falsy(inp) \/ lower[Val(inp)] \notin {"yes", "no"}
    THEN Returns("ITEM_MATCH_WARDROBE", d, "reject",
                 Choice(<< "Please answer 'yes' or 'no'." >>, << "yes", "no" >>))
    ELSE LET d1 == [d EXCEPT !.match_existing = Some(lower[Val(inp)] = "yes")]
         IN  IF Val(d1.match_existing)
             THEN Returns("ITEM_WARDROBE_ITEMS", d1, "accept",
                          Text(<< "Which items in your wardrobe would you like to match the "
                                  \o Fmt(d1.single_item_type)
                                  \o " with? (e.g. 'dark jeans, white shirt, brown belt')" >>))
             ELSE Returns("ITEM_DESC", d1, "accept",
                          Text(<< "Describe the " \o Fmt(d1.single_item_type)
                                  \o " (color, material, fit, etc.)." >>))

\* Session._handle_item_wardrobe_items
handle_item_wardrobe_items(d, inp) ==
    IF Falsy(inp)
    THEN Returns("ITEM_WARDROBE_ITEMS", d, "reject",
                 Text(<< "Please list the wardrobe items you'd like to match the "
                         \o Fmt(d.single_item_type) \o " with." >>))
    ELSE IF ~has_domain_words(Val(inp))
    THEN Returns("ITEM_WARDROBE_ITEMS", d, "reject",
                 Text(<< "That looks a bit vague. Please list wardrobe items with fashion terms (e.g., 'dark jeans, white oxford shirt, brown belt')." >>))
    ELSE Returns("ITEM_DESC",
                 [d EXCEPT !.wardrobe_items_to_match = inp,
                           !.wardrobe_items_to_match_clean = Some(normalize_text(Val(inp)))],
                 "accept",
                 Text(<< "Great! Now describe the " \o Fmt(d.single_item_type)
                         \o " you're looking for that will match with: " \o Val(inp) >>))

\* Fault: _handle_item_desc storing the description without its cleaned copy.
handle_item_desc_skips_clean(d, inp) ==
    IF Falsy(inp)
    THEN Returns("ITEM_DESC", d, "reject",
                 Text(<< "Please describe the " \o Fmt(d.single_item_type) \o "." >>))
    ELSE IF ~has_domain_words(Val(inp))
    THEN Returns("ITEM_DESC", d, "reject",
                 Text(<< "This looks suspicious. Please include fashion details for the "
                         \o Fmt(d.single_item_type)
                         \o " (e.g., color, material, fit like 'black leather, slim, cropped')." >>))
    ELSE IF d.single_item_type = None
    THEN Raises("ITEM_DESC", d, "AssertionError")
    ELSE LET item == Val(d.single_item_type)
         IN  Returns("BODY_HEIGHT",
                     [d EXCEPT !.descriptions = DictSet(@, item, Val(inp))],
                     "accept",
                     Text(<< "Height (in cm)?" >>))

\* Session._handle_item_desc
handle_item_desc(d, inp) ==
    IF Falsy(inp)
    THEN Returns("ITEM_DESC", d, "reject",
                 Text(<< "Please describe the " \o Fmt(d.single_item_type) \o "." >>))
    ELSE IF ~has_domain_words(Val(inp))
    THEN Returns("ITEM_DESC", d, "reject",
                 Text(<< "This looks suspicious. Please include fashion details for the "
                         \o Fmt(d.single_item_type)
                         \o " (e.g., color, material, fit like 'black leather, slim, cropped')." >>))
    ELSE IF d.single_item_type = None
    THEN Raises("ITEM_DESC", d, "AssertionError")
    ELSE LET item == Val(d.single_item_type)
         IN  Returns("BODY_HEIGHT",
                     [d EXCEPT !.descriptions = DictSet(@, item, Val(inp)),
                               !.descriptions_clean = DictSet(@, item, clean_description(Val(inp)))],
                     "accept",
                     Text(<< "Height (in cm)?" >>))

\* The ranges the body handlers accept (lines 760, 782 and 802).
HEIGHT_MIN == 100

HEIGHT_MAX == 250

WEIGHT_MIN == 30

WEIGHT_MAX == 300

AGE_MIN == 1

AGE_MAX == 120

\* Session._handle_body_height
handle_body_height(d, inp) ==
    IF ~is_number(inp)
    THEN Returns("BODY_HEIGHT", d, "reject", Text(<< "Enter a numeric height in cm." >>))
    ELSE LET height == FloatValue[Val(inp)]
         IN  IF ~(FloatGE(height, HEIGHT_MIN) /\ FloatLE(height, HEIGHT_MAX))
             THEN Returns("BODY_HEIGHT", d, "reject",
                          Text(<< "Enter a height between 100 and 250 cm." >>))
             ELSE Returns("BODY_WEIGHT",
                          [d EXCEPT !.body = DictSet(@, "height_cm", height)],
                          "accept",
                          Text(<< "Weight (in kg)?" >>))

\* Fault: _handle_body_weight sending a session whose weight is out of range
\* back to the height question.
handle_body_weight_back_to_height(d, inp) ==
    IF ~is_number(inp)
    THEN Returns("BODY_WEIGHT", d, "reject", Text(<< "Enter a numeric weight in kg." >>))
    ELSE LET weight == FloatValue[Val(inp)]
         IN  IF ~(FloatGE(weight, WEIGHT_MIN) /\ FloatLE(weight, WEIGHT_MAX))
             THEN Returns("BODY_HEIGHT", d, "reject",
                          Text(<< "Enter a weight between 30 and 300 kg." >>))
             ELSE Returns("BODY_AGE",
                          [d EXCEPT !.body = DictSet(@, "weight_kg", weight)],
                          "accept",
                          Text(<< "Age?" >>))

\* Session._handle_body_weight
handle_body_weight(d, inp) ==
    IF ~is_number(inp)
    THEN Returns("BODY_WEIGHT", d, "reject", Text(<< "Enter a numeric weight in kg." >>))
    ELSE LET weight == FloatValue[Val(inp)]
         IN  IF ~(FloatGE(weight, WEIGHT_MIN) /\ FloatLE(weight, WEIGHT_MAX))
             THEN Returns("BODY_WEIGHT", d, "reject",
                          Text(<< "Enter a weight between 30 and 300 kg." >>))
             ELSE Returns("BODY_AGE",
                          [d EXCEPT !.body = DictSet(@, "weight_kg", weight)],
                          "accept",
                          Text(<< "Age?" >>))

\* Fault: _handle_body_age comparing with strict inequalities.
handle_body_age_strict(d, inp) ==
    IF Falsy(inp) \/ ~isdigit[Val(inp)]
    THEN Returns("BODY_AGE", d, "reject", Text(<< "Enter age as an integer." >>))
    ELSE IF IntRaises[Val(inp)]
    THEN Raises("BODY_AGE", d, "ValueError")
    ELSE LET age == IntValue[Val(inp)]
         IN  IF ~(AGE_MIN < age /\ age < AGE_MAX)
             THEN Returns("BODY_AGE", d, "reject",
                          Text(<< "Enter an age between 1 and 120." >>))
             ELSE Returns("COMPLETE",
                          [d EXCEPT !.body = DictSet(@, "age", age)],
                          "accept",
                          Reply(<< "Perfect! I have all the information I need. Generating your personalized recommendations..." >>,
                                "text", <<>>, TRUE, TRUE))

\* Fault: _handle_body_age returning its last payload without done.
handle_body_age_not_done(d, inp) ==
    IF Falsy(inp) \/ ~isdigit[Val(inp)]
    THEN Returns("BODY_AGE", d, "reject", Text(<< "Enter age as an integer." >>))
    ELSE IF IntRaises[Val(inp)]
    THEN Raises("BODY_AGE", d, "ValueError")
    ELSE LET age == IntValue[Val(inp)]
         IN  IF ~(AGE_MIN <= age /\ age <= AGE_MAX)
             THEN Returns("BODY_AGE", d, "reject",
                          Text(<< "Enter an age between 1 and 120." >>))
             ELSE Returns("COMPLETE",
                          [d EXCEPT !.body = DictSet(@, "age", age)],
                          "accept",
                          Reply(<< "Perfect! I have all the information I need. Generating your personalized recommendations..." >>,
                                "text", <<>>, FALSE, TRUE))

\* Session._handle_body_age
handle_body_age(d, inp) ==
    IF Falsy(inp) \/ ~isdigit[Val(inp)]
    THEN Returns("BODY_AGE", d, "reject", Text(<< "Enter age as an integer." >>))
    ELSE IF IntRaises[Val(inp)]
    THEN Raises("BODY_AGE", d, "ValueError")
    ELSE LET age == IntValue[Val(inp)]
         IN  IF ~(AGE_MIN <= age /\ age <= AGE_MAX)
             THEN Returns("BODY_AGE", d, "reject",
                          Text(<< "Enter an age between 1 and 120." >>))
             ELSE Returns("COMPLETE",
                          [d EXCEPT !.body = DictSet(@, "age", age)],
                          "accept",
                          Reply(<< "Perfect! I have all the information I need. Generating your personalized recommendations..." >>,
                                "text", <<>>, TRUE, TRUE))

\* Fault: the fallback of process returning without done.
session_complete_not_done(d) ==
    Returns("COMPLETE", d, "complete", Reply(<< "Session complete." >>, "text", <<>>, FALSE, FALSE))

\* Fault: the fallback of process asking for the summary again.
session_complete_shows_summary(d) ==
    Returns("COMPLETE", d, "complete", Reply(<< "Session complete." >>, "text", <<>>, TRUE, TRUE))

\* The fallback of Session.process, taken when no stage test matched.
session_complete(d) ==
    Returns("COMPLETE", d, "complete", Reply(<< "Session complete." >>, "text", <<>>, TRUE, FALSE))

\* The routing of process (lines 249-286): what the handler of stage st
\* leaves when it is given the input inp.
dispatch(st, d, inp) ==
    CASE st = "START"               -> enter_mode_selection(d)
      [] st = "MODE_SELECTION"      -> handle_mode_selection(d, inp)
      [] st = "MODE_STYLE"          -> handle_mode_style(d, inp)
      [] st = "OUTFIT_ITEMS"        -> handle_outfit_items(d, inp)
      [] st = "OUTFIT_OCCASION"     -> handle_outfit_occasion(d, inp)
      [] st = "OUTFIT_ITEM_DESC"    -> handle_outfit_item_desc(d, inp)
      [] st = "ITEM_TYPE"           -> handle_item_type(d, inp)
      [] st = "ITEM_MATCH_WARDROBE" -> handle_item_match(d, inp)
      [] st = "ITEM_WARDROBE_ITEMS" -> handle_item_wardrobe_items(d, inp)
      [] st = "ITEM_DESC"           -> handle_item_desc(d, inp)
      [] st = "BODY_HEIGHT"         -> handle_body_height(d, inp)
      [] st = "BODY_WEIGHT"         -> handle_body_weight(d, inp)
      [] st = "BODY_AGE"            -> handle_body_age(d, inp)
      [] OTHER                      -> session_complete(d)

\* ------------------------------------------------------------------------
\* Inputs
\* ------------------------------------------------------------------------

\* Arguments a caller passes at any stage that reads its input: no answer,
\* an empty and a blank answer, an answer no stage accepts, and a digit
\* int() cannot read.
CommonInputs == { None, Some(""), Some("   "), Some("hello"), Some("²") }

\* Arguments tried at one stage in addition to the common ones.
StageInputs ==
    [ MODE_SELECTION      |-> { Some("outfit"), Some(" Item\t"), Some("Item"), Some("outfits") },
      MODE_STYLE          |-> { Some("casual"), Some("2000"), Some("outfit") },
      OUTFIT_ITEMS        |-> { Some("jeans, t-shirt, blazer"), Some("t-shirt hat, jeans"),
                                Some("blazer"), Some("jeans and hoodie"), Some("jeans,"),
                                Some("jeans hat"), Some("jeans, hello"), Some(","),
                                Some("jeans, jeans"), Some("blazer plus"), Some("denim-jacket"),
                                Some("flip-flops"), Some("  Navy Blazer "),
                                Some("jeans & more, hat") },
      OUTFIT_OCCASION     |-> { Some("daily"), Some("Specific"), Some("daily wear") },
      OUTFIT_ITEM_DESC    |-> { Some("blue, slim"), Some("white, cotton"), Some("black, tailored") },
      ITEM_TYPE           |-> { Some("T-Shirt"), Some("casual") },
      ITEM_MATCH_WARDROBE |-> { Some("yes"), Some("No"), Some("maybe") },
      ITEM_WARDROBE_ITEMS |-> { Some("dark jeans, white shirt"), Some("yes") },
      ITEM_DESC           |-> { Some("off-white, down to the waist"), Some("175") },
      BODY_HEIGHT         |-> { Some("100"), Some("250"), Some("99.99"), Some("250.01"),
                                Some("175"), Some("nan") },
      BODY_WEIGHT         |-> { Some("30"), Some("300"), Some("29.99"), Some("300.01"),
                                Some("70") },
      BODY_AGE            |-> { Some("1"), Some("120"), Some("0"), Some("121"), Some("28"),
                                Some("150"), Some("120.0") } ]

\* Arguments passed at START and at COMPLETE, which do not read them.
IgnoredInputs == { None, Some("outfit") }

\* The arguments the model passes to process at a stage.
Inputs(st) ==
    IF st \in {"START", "COMPLETE"} THEN IgnoredInputs ELSE CommonInputs \cup StageInputs[st]

\* ------------------------------------------------------------------------
\* The session
\* ------------------------------------------------------------------------

\* Fault: process handing its input to the handlers as it came.
Trimmed_keeps_blanks(raw) == raw

\* user_input.strip() when user_input is not None (lines 238-240).
Trimmed(raw) == IF raw = None THEN None ELSE Some(strip[Val(raw)])

\* The line logged on entry (lines 243-247).
InboundLine(inp, st) == [ dir |-> ">>", user_input |-> inp, stage |-> st ]

\* The line _payload logs (lines 834-843).
OutboundLine(p) ==
    [ dir |-> "<<", stage |-> p.stage, expect |-> p.expect, choices |-> p.choices,
      done |-> p.done, show_summary |-> p.show_summary, data |-> p.data, messages |-> p.messages ]

\* Session.__init__; debug_clean comes from the environment.
Init ==
    /\ stage = "START"
    /\ data = NewSessionData
    /\ debug_clean \in BOOLEAN
    /\ user_input = None
    /\ event = "init"
    /\ payload = None
    /\ raised = None
    /\ log = <<>>
    /\ log_failed = FALSE
    /\ peer = [ stage |-> "START", data |-> NewSessionData, payload |-> None ]
    /\ normalized = [ text |-> "", result |-> normalize_text("") ]
    /\ summaries = 0

\* Fault: a failure of the log escaping from process as an exception.
Process_log_failure_raises(raw, res) ==
    \E r \in { res } :
        \E failed \in BOOLEAN :
            /\ stage' = r.stage
            /\ data' = r.data
            /\ event' = IF failed THEN "raise" ELSE r.event
            /\ user_input' = raw
            /\ raised' = IF failed THEN Some("OSError") ELSE r.exc
            /\ \E p \in { IF failed \/ r.reply = None
                          THEN None
                          ELSE Some(payload_of(r.stage, r.data, debug_clean, Val(r.reply))) } :
                  /\ payload' = p
                  /\ log' = << InboundLine(Trimmed(raw), stage) >>
                            \o (IF p = None THEN <<>> ELSE << OutboundLine(Val(p)) >>)
                  /\ summaries' = IF p # None /\ Val(p).show_summary
                                   THEN summaries + 1 ELSE summaries
            /\ log_failed' = failed
            /\ peer' = [peer EXCEPT !.data = seen_through_shared(@, r.data)]
            /\ UNCHANGED <<debug_clean, normalized>>

\* Session.process(raw) once the handler of the current stage has run and
\* left res. The handler's result and the payload are bound once each.
\* The calls of logger.info (lines 243-247, 834-843) stand unguarded: a
\* handler that fails to write reports the error itself (logging.Handler
\* handleError) and logger.info returns, and a file handler whose set-up
\* failed was never added (_get_logger, lines 993-1000); log_failed records
\* that one of the two happened to this call.
Process(raw, res) ==
    \E r \in { res } :
        /\ stage' = r.stage
        /\ data' = r.data
        /\ event' = r.event
        /\ user_input' = raw
        /\ raised' = r.exc
        /\ \E p \in { IF r.reply = None
                      THEN None
                      ELSE Some(payload_of(r.stage, r.data, debug_clean, Val(r.reply))) } :
              /\ payload' = p
              /\ log' = << InboundLine(Trimmed(raw), stage) >>
                        \o (IF p = None THEN <<>> ELSE << OutboundLine(Val(p)) >>)
              /\ summaries' = IF p # None /\ Val(p).show_summary
                               THEN summaries + 1 ELSE summaries
        /\ log_failed' \in BOOLEAN
        /\ peer' = [peer EXCEPT !.data = seen_through_shared(@, r.data)]
        /\ UNCHANGED <<debug_clean, normalized>>

\* Fault: process dispatching its first call on the input.
Start_reads_input ==
    /\ stage = "START"
    /\ \E raw \in Inputs(stage) :
          Process(raw, IF Falsy(Trimmed(raw))
                       THEN enter_mode_selection(data)
                       ELSE handle_mode_selection(data, Trimmed(raw)))

\* process at START (lines 249-251).
Start ==
    /\ stage = "START"
    /\ \E raw \in Inputs(stage) : Process(raw, enter_mode_selection(data))

ModeSelection ==
    /\ stage = "MODE_SELECTION"
    /\ \E raw \in Inputs(stage) : Process(raw, handle_mode_selection(data, Trimmed(raw)))

ModeStyle ==
    /\ stage = "MODE_STYLE"
    /\ \E raw \in Inputs(stage) : Process(raw, handle_mode_style(data, Trimmed(raw)))

OutfitItems ==
    /\ stage = "OUTFIT_ITEMS"
    /\ \E raw \in Inputs(stage) : Process(raw, handle_outfit_items(data, Trimmed(raw)))

OutfitOccasion ==
    /\ stage = "OUTFIT_OCCASION"
    /\ \E raw \in Inputs(stage) : Process(raw, handle_outfit_occasion(data, Trimmed(raw)))

OutfitItemDesc ==
    /\ stage = "OUTFIT_ITEM_DESC"
    /\ \E raw \in Inputs(stage) : Process(raw, handle_outfit_item_desc(data, Trimmed(raw)))

ItemType ==
    /\ stage = "ITEM_TYPE"
    /\ \E raw \in Inputs(stage) : Process(raw, handle_item_type(data, Trimmed(raw)))

ItemMatchWardrobe ==
    /\ stage = "ITEM_MATCH_WARDROBE"
    /\ \E raw \in Inputs(stage) : Process(raw, handle_item_match(data, Trimmed(raw)))

ItemWardrobeItems ==
    /\ stage = "ITEM_WARDROBE_ITEMS"
    /\ \E raw \in Inputs(stage) : Process(raw, handle_item_wardrobe_items(data, Trimmed(raw)))

ItemDesc ==
    /\ stage = "ITEM_DESC"
    /\ \E raw \in Inputs(stage) : Process(raw, handle_item_desc(data, Trimmed(raw)))

BodyHeight ==
    /\ stage = "BODY_HEIGHT"
    /\ \E raw \in Inputs(stage) : Process(raw, handle_body_height(data, Trimmed(raw)))

BodyWeight ==
    /\ stage = "BODY_WEIGHT"
    /\ \E raw \in Inputs(stage) : Process(raw, handle_body_weight(data, Trimmed(raw)))

BodyAge ==
    /\ stage = "BODY_AGE"
    /\ \E raw \in Inputs(stage) : Process(raw, handle_body_age(data, Trimmed(raw)))

Complete ==
    /\ stage = "COMPLETE"
    /\ \E raw \in Inputs(stage) : Process(raw, session_complete(data))

\* Session.enable_clean_debug(enabled): the only operation besides process.
EnableCleanDebug ==
    /\ \E enabled \in BOOLEAN : debug_clean' = enabled
    /\ UNCHANGED <<stage, data, user_input, event, payload, raised, log, log_failed, peer, normalized, summaries>>

Next ==
    \/ Start
    \/ ModeSelection
    \/ ModeStyle
    \/ OutfitItems
    \/ OutfitOccasion
    \/ OutfitItemDesc
    \/ ItemType
    \/ ItemMatchWardrobe
    \/ ItemWardrobeItems
    \/ ItemDesc
    \/ BodyHeight
    \/ BodyWeight
    \/ BodyAge
    \/ Complete
    \/ EnableCleanDebug

Spec == Init /\ [][Next]_vars

\* ------------------------------------------------------------------------
\* Two sessions in one process
\* ------------------------------------------------------------------------

\* The arguments either session passes at a stage.
TwoInputs(st) ==
    CASE st \in {"START", "COMPLETE"} -> { None }
      [] st = "MODE_SELECTION"      -> { Some("outfit"), Some("Item") }
      [] st = "MODE_STYLE"          -> { Some("casual") }
      [] st = "OUTFIT_ITEMS"        -> { Some("jeans & more, hat"), Some("blazer") }
      [] st = "OUTFIT_OCCASION"     -> { Some("daily") }
      [] st = "OUTFIT_ITEM_DESC"    -> { Some("blue, slim"), Some("white, cotton") }
      [] st = "ITEM_TYPE"           -> { Some("T-Shirt") }
      [] st = "ITEM_MATCH_WARDROBE" -> { Some("No") }
      [] st = "ITEM_WARDROBE_ITEMS" -> { Some("dark jeans, white shirt") }
      [] st = "ITEM_DESC"           -> { Some("off-white, down to the waist") }
      [] st = "BODY_HEIGHT"         -> { Some("175"), Some("nan") }
      [] st = "BODY_WEIGHT"         -> { Some("70") }
      [] OTHER                      -> { Some("28"), Some("120") }

\* A process call on the first session.
OwnCall ==
    \E raw \in TwoInputs(stage) : Process(raw, dispatch(stage, data, Trimmed(raw)))

\* A process call on the second session. Both were built under one
\* environment, so its debug flag is the first session's.
PeerCall ==
    \E raw \in TwoInputs(peer.stage) :
        \E r \in { dispatch(peer.stage, peer.data, Trimmed(raw)) } :
            /\ peer' = [ stage   |-> r.stage,
                         data    |-> r.data,
                         payload |-> IF r.reply = None
                                     THEN None
                                     ELSE Some(payload_of(r.stage, r.data, debug_clean,
                                                          Val(r.reply))) ]
            /\ data' = seen_through_shared(data, r.data)
            /\ UNCHANGED <<stage, debug_clean, user_input, event, payload, raised, log,
                           log_failed, normalized, summaries>>

TwoNext ==
    \/ OwnCall
    \/ PeerCall

TwoSpec == Init /\ [][TwoNext]_vars

\* ------------------------------------------------------------------------
\* The normalizer on its own
\* ------------------------------------------------------------------------

\* The longest text handed to _normalize_text.
MaxTextLen == 5

\* The characters of those texts: an upper-case letter, a blank and a tab.
TextAlphabet == { "B", " ", "\t" }

\* The texts of a given length.
TextsOfLen[n \in 0..(MaxTextLen + 1)] ==
    IF n = 0 THEN { "" } ELSE { t \o c : t \in TextsOfLen[n - 1], c \in TextAlphabet }

Texts == UNION { TextsOfLen[n] : n \in 0..MaxTextLen }

\* Session._normalize_text(x) for a text x.
Normalize ==
    /\ \E x \in Texts : normalized' = [ text |-> x, result |-> normalize_text(x) ]
    /\ UNCHANGED <<stage, data, debug_clean, user_input, event, payload, raised, log,
                   log_failed, peer, summaries>>

\* Session._normalize_text applied to what it returned last.
NormalizeAgain ==
    /\ normalized' = [ text |-> normalized.result, result |-> normalize_text(normalized.result) ]
    /\ UNCHANGED <<stage, data, debug_clean, user_input, event, payload, raised, log,
                   log_failed, peer, summaries>>

NormalizeNext ==
    \/ Normalize
    \/ NormalizeAgain

NormalizeSpec == Init /\ [][NormalizeNext]_vars

\* ------------------------------------------------------------------------
\* Properties
\* ------------------------------------------------------------------------

\* A step made by a process call: process never writes debug_clean, and
\* enable_clean_debug writes nothing else.
ProcessStep == debug_clean' = debug_clean

\* The stages whose handler reads the input.
HandlerStages == { Stages[i] : i \in 2..13 }

\* C1: at every stage other than START and COMPLETE, a process call whose
\* input is rejected leaves the stage and every SessionData field unchanged.
C1_RejectLeavesSessionUnchanged ==
    [][ (ProcessStep /\ stage \in HandlerStages /\ event' = "reject")
        => (stage' = stage /\ data' = data) ]_vars

\* A rejection at OUTFIT_ITEMS of a session that already holds data.
C1_Witness ==
    /\ stage = "OUTFIT_ITEMS"
    /\ event = "reject"
    /\ user_input = Some("t-shirt hat, jeans")
    /\ data.mode = Some("outfit")
    /\ data.style = Some("casual")

\* The successor table of section 4.1, with the conditions on its edges.
SuccessorTable ==
    { <<"START", "MODE_SELECTION">>,
      <<"MODE_SELECTION", "MODE_STYLE">>,
      <<"MODE_STYLE", "OUTFIT_ITEMS">>,
      <<"MODE_STYLE", "ITEM_TYPE">>,
      <<"OUTFIT_ITEMS", "OUTFIT_OCCASION">>,
      <<"OUTFIT_ITEMS", "ITEM_MATCH_WARDROBE">>,
      <<"OUTFIT_OCCASION", "OUTFIT_ITEM_DESC">>,
      <<"OUTFIT_ITEM_DESC", "BODY_HEIGHT">>,
      <<"ITEM_TYPE", "ITEM_MATCH_WARDROBE">>,
      <<"ITEM_MATCH_WARDROBE", "ITEM_WARDROBE_ITEMS">>,
      <<"ITEM_MATCH_WARDROBE", "ITEM_DESC">>,
      <<"ITEM_WARDROBE_ITEMS", "ITEM_DESC">>,
      <<"ITEM_DESC", "BODY_HEIGHT">>,
      <<"BODY_HEIGHT", "BODY_WEIGHT">>,
      <<"BODY_WEIGHT", "BODY_AGE">>,
      <<"BODY_AGE", "COMPLETE">> }

\* The condition under which the table allows the edge from s to t, given
\* the data the call leaves.
EdgeCondition(s, t, d) ==
    CASE <<s, t>> = <<"MODE_STYLE", "OUTFIT_ITEMS">> -> d.mode = Some("outfit")
      [] <<s, t>> = <<"MODE_STYLE", "ITEM_TYPE">> -> d.mode = Some("item")
      [] <<s, t>> = <<"ITEM_MATCH_WARDROBE", "ITEM_WARDROBE_ITEMS">> -> d.match_existing = Some(TRUE)
      [] <<s, t>> = <<"ITEM_MATCH_WARDROBE", "ITEM_DESC">> -> d.match_existing = Some(FALSE)
      [] OTHER -> TRUE

\* C2: every change of stage is an edge of the successor table, taken under
\* the table's condition, and no stage has more than two successors.
C2_StageChangesFollowTable ==
    [][ stage' # stage
        => /\ <<stage, stage'>> \in SuccessorTable
           /\ EdgeCondition(stage, stage', data')
           /\ Cardinality({ e \in SuccessorTable : e[1] = stage }) <= 2 ]_vars

\* The pivot edge has been taken.
C2_Witness ==
    /\ stage = "ITEM_MATCH_WARDROBE"
    /\ event = "accept"
    /\ user_input = Some("blazer")
    /\ data.outfit_items_raw = None

\* C3: once the stage is COMPLETE, every process call returns a payload with
\* done set and leaves the stage and the data as they are.
C3_CompleteIsAbsorbing ==
    [][ (ProcessStep /\ stage = "COMPLETE")
        => /\ stage' = "COMPLETE"
           /\ data' = data
           /\ raised' = None
           /\ payload' # None
           /\ Val(payload').done ]_vars

\* A call made while in COMPLETE has returned.
C3_Witness ==
    /\ stage = "COMPLETE"
    /\ event = "complete"
    /\ user_input = Some("outfit")
    /\ Val(payload).done

\* The payload the bootstrap call returns (without its data snapshot).
C4_BootstrapPayload(p) ==
    /\ p.stage = "MODE_SELECTION"
    /\ p.expect = "choice"
    /\ p.choices = << "outfit", "item" >>
    /\ ~p.done
    /\ p.data.mode = None

\* C4: the first process call ignores its argument: whatever it is, the
\* stage becomes MODE_SELECTION, the data is untouched (no mode), and the
\* payload offers the choice between outfit and item.
C4_BootstrapIgnoresInput ==
    [][ (ProcessStep /\ stage = "START")
        => /\ stage' = "MODE_SELECTION"
           /\ data' = data
           /\ data'.mode = None
           /\ payload' # None
           /\ C4_BootstrapPayload(Val(payload')) ]_vars

\* The bootstrap call was given "outfit" and did not read it.
C4_Witness ==
    /\ event = "bootstrap"
    /\ user_input = Some("outfit")
    /\ stage = "MODE_SELECTION"
    /\ data.mode = None

\* C5: a new session is in START, the first process call leaves it, and the
\* stage is never START again.
C5_StartVisitedOnce ==
    /\ stage = "START"
    /\ [][ /\ (ProcessStep /\ stage = "START") => stage' # "START"
           /\ stage # "START" => stage' # "START" ]_vars
    /\ [](stage = "START" <=> event = "init")

\* The session has run to its end and been called again, away from START.
C5_Witness ==
    /\ stage = "COMPLETE"
    /\ event = "complete"

\* C6: show_summary is set in one payload at most, the one returned by the
\* call that moves the stage from BODY_AGE to COMPLETE.
C6_SummaryShownOnce ==
    /\ [](summaries <= 1)
    /\ [][ ProcessStep
           => ((payload' # None /\ Val(payload').show_summary)
               <=> (stage = "BODY_AGE" /\ stage' = "COMPLETE")) ]_vars

\* A later call in COMPLETE has returned show_summary = false after the
\* summary was shown once.
C6_Witness ==
    /\ stage = "COMPLETE"
    /\ event = "complete"
    /\ summaries = 1
    /\ ~Val(payload).show_summary

\* A process call that is accepted (the bootstrap call included).
Progress == ProcessStep /\ event' \in {"bootstrap", "accept"} /\ Next

\* A step from a stage other than COMPLETE in which a process call is
\* accepted. Its second conjunct is valid: it is there for TLC, which can then
\* tell that the action is enabled without running a handler.
Advance ==
    /\ stage # "COMPLETE"
    /\ \/ UNCHANGED <<stage, data, user_input, payload, raised, log, log_failed, peer, normalized, summaries>>
       \/ <<stage, data, user_input, payload, raised, log, log_failed, peer, normalized, summaries>>'
             # <<stage, data, user_input, payload, raised, log, log_failed, peer, normalized, summaries>>
    /\ ProcessStep
    /\ event' \in {"bootstrap", "accept"}

\* The caller keeps answering, and an answer the stage accepts is not
\* withheld forever. Every step of Spec that is an Advance step is a Progress
\* step, and C7 below checks that Progress is enabled wherever Advance is.
FairSpec == Spec /\ WF_vars(Advance)

\* C7: if the caller keeps supplying acceptable inputs, the session reaches
\* COMPLETE from every reachable state and stays there; an acceptable input
\* exists at every stage before COMPLETE; and the payload of the call that
\* reaches COMPLETE has done set and a summary in its snapshot.
C7_HappyPathTerminates ==
    /\ <>[](stage = "COMPLETE")
    /\ [](stage # "COMPLETE" => ENABLED <<Progress>>_vars)
    /\ [][ (ProcessStep /\ stage # "COMPLETE" /\ stage' = "COMPLETE")
           => /\ payload' # None
              /\ Val(payload').done
              /\ "user_summary" \in DOMAIN Val(payload').data
              /\ Val(payload').data["user_summary"] # "" ]_vars

\* COMPLETE has just been reached by an accepted answer.
C7_Witness ==
    /\ stage = "COMPLETE"
    /\ event = "accept"
    /\ Val(payload).done
    /\ "user_summary" \in DOMAIN Val(payload).data

\* C8: process never raises to the caller: every call returns a payload.
C8_ProcessNeverRaises ==
    /\ raised = None
    /\ event # "raise"
    /\ (event # "init" => payload # None)

\* float(x) lies strictly below lo.
StrictlyBelow(v, lo) == v.kind # "nan" /\ ~FloatGE(v, lo)

\* float(x) lies strictly above hi.
StrictlyAbove(v, hi) == v.kind # "nan" /\ ~FloatLE(v, hi)

\* The range rule of one numeric stage for one process step: inputs outside
\* [lo, hi] are rejected, inputs within it that are wellformed for the stage
\* are accepted, stored under key and move the stage to next.
RangeRule(st, next, key, lo, hi, integral, digits_only) ==
    (ProcessStep /\ stage = st /\ is_number(Trimmed(user_input')))
    => \E x \in { Val(Trimmed(user_input')) } :
       \E v \in { FloatValue[x] } :
       \E inside \in { FloatGE(v, lo) /\ FloatLE(v, hi) } :
       \E wellformed \in { digits_only => isdigit[x] } :
          /\ (StrictlyBelow(v, lo) \/ StrictlyAbove(v, hi))
             => (stage' = st /\ data'.body = data.body /\ event' = "reject")
          /\ (inside /\ wellformed)
             => /\ stage' = next
                /\ event' = "accept"
                /\ data'.body = DictSet(data.body, key, IF integral THEN FloatToInt(v) ELSE v)
          /\ (inside /\ ~wellformed)
             => (stage' = st /\ data'.body = data.body /\ event' = "reject")

\* C9 as stated: at BODY_HEIGHT, BODY_WEIGHT and BODY_AGE alike, a numeric
\* input outside the range is rejected and one inside it, the bounds
\* included, is accepted and stored.
C9_BoundsAcceptedAsStated ==
    [][ /\ RangeRule("BODY_HEIGHT", "BODY_WEIGHT", "height_cm", HEIGHT_MIN, HEIGHT_MAX, FALSE, FALSE)
        /\ RangeRule("BODY_WEIGHT", "BODY_AGE", "weight_kg", WEIGHT_MIN, WEIGHT_MAX, FALSE, FALSE)
        /\ RangeRule("BODY_AGE", "COMPLETE", "age", AGE_MIN, AGE_MAX, TRUE, FALSE) ]_vars

\* C9 (amended): a numeric input outside the range is rejected with the
\* stage and body unchanged; one inside it, the bounds included, is accepted,
\* stored and advances the stage, whether or not a rejection came before --
\* provided that at BODY_AGE it is written with digits only: a value in range
\* written otherwise, such as "120.0", is rejected there. At BODY_AGE "150"
\* is rejected and "28" after it leads to COMPLETE.
C9_BoundsAccepted ==
    [][ /\ RangeRule("BODY_HEIGHT", "BODY_WEIGHT", "height_cm", HEIGHT_MIN, HEIGHT_MAX, FALSE, FALSE)
        /\ RangeRule("BODY_WEIGHT", "BODY_AGE", "weight_kg", WEIGHT_MIN, WEIGHT_MAX, FALSE, FALSE)
        /\ RangeRule("BODY_AGE", "COMPLETE", "age", AGE_MIN, AGE_MAX, TRUE, TRUE)
        /\ (ProcessStep /\ stage = "BODY_AGE" /\ user_input' = Some("150"))
              => (stage' = "BODY_AGE" /\ event' = "reject")
        /\ (ProcessStep /\ stage = "BODY_AGE" /\ event = "reject"
               /\ user_input = Some("150") /\ user_input' = Some("28"))
              => (stage' = "COMPLETE" /\ data'.body["age"] = 28) ]_vars

\* The upper bound of the age was accepted after "150" had been rejected at
\* BODY_AGE, with the bounds of height and weight stored before.
C9_Witness ==
    /\ stage = "COMPLETE"
    /\ event = "accept"
    /\ user_input = Some("120")
    /\ data.body = ("height_cm" :> Float(HEIGHT_MIN)) @@ ("weight_kg" :> Float(WEIGHT_MAX))
                   @@ ("age" :> AGE_MAX)

\* C10 as stated: mode is assigned only by the accepting MODE_SELECTION
\* turn, once, and never changes afterwards.
C10_ModeSetOnceAsStated ==
    [][ data'.mode # data.mode
        => /\ stage = "MODE_SELECTION"
           /\ event' = "accept"
           /\ data.mode = None
           /\ data'.mode \in { Some("outfit"), Some("item") } ]_vars

\* C10 (amended): mode is first assigned by the accepting MODE_SELECTION
\* turn; after that it changes in one case only, the single-item pivot at
\* OUTFIT_ITEMS, which overwrites "outfit" with "item" and moves the stage to
\* ITEM_MATCH_WARDROBE; once "item", it never changes.
C10_ModeSetOnce ==
    /\ [][ data'.mode # data.mode
           => \/ /\ stage = "MODE_SELECTION"
                 /\ event' = "accept"
                 /\ data.mode = None
                 /\ data'.mode \in { Some("outfit"), Some("item") }
              \/ /\ stage = "OUTFIT_ITEMS"
                 /\ stage' = "ITEM_MATCH_WARDROBE"
                 /\ event' = "accept"
                 /\ data.mode = Some("outfit")
                 /\ data'.mode = Some("item") ]_vars
    /\ [][ (stage = "OUTFIT_ITEMS" /\ stage' = "ITEM_MATCH_WARDROBE")
           => data'.mode = Some("item") ]_vars
    /\ [](data.mode = None <=> stage \in {"START", "MODE_SELECTION"})

\* The pivot has overwritten the mode chosen in MODE_SELECTION.
C10_Witness ==
    /\ stage = "ITEM_MATCH_WARDROBE"
    /\ event = "accept"
    /\ user_input = Some("blazer")
    /\ data.mode = Some("item")
    /\ data.single_item_type = Some("blazer")

\* The outfit-specific fields of SessionData, any of them set.
OutfitGroupPopulated(d) ==
    \/ d.outfit_items_list # <<>>
    \/ d.outfit_items_pending # <<>>
    \/ d.current_item # None
    \/ d.occasion # None

\* The item-specific fields of SessionData, any of them set.
ItemGroupPopulated(d) ==
    \/ d.single_item_type # None
    \/ d.match_existing # None
    \/ d.wardrobe_items_to_match # None

\* C11 as stated: in every reachable state exactly one of the two field
\* groups is populated, the outfit group when mode is "outfit" and the item
\* group when mode is "item".
C11_OneGroupPopulatedAsStated ==
    /\ OutfitGroupPopulated(data) # ItemGroupPopulated(data)
    /\ data.mode = Some("outfit") => (OutfitGroupPopulated(data) /\ ~ItemGroupPopulated(data))
    /\ data.mode = Some("item") => (ItemGroupPopulated(data) /\ ~OutfitGroupPopulated(data))

\* C11 (amended): in every reachable state at most one of the two field
\* groups is populated and mode determines which may be: with mode unset
\* both are empty, with mode "outfit" the item group is empty, with mode
\* "item" the outfit group is empty.  The group of the mode is populated
\* only once its first question is answered: the outfit group from
\* OUTFIT_OCCASION on (outfit_items_list non-empty), the item group from
\* ITEM_MATCH_WARDROBE on (single_item_type set); so exactly one group is
\* populated in every state past OUTFIT_ITEMS and ITEM_TYPE, COMPLETE
\* included, and none is before.
C11_OneGroupPopulated ==
    /\ ~(OutfitGroupPopulated(data) /\ ItemGroupPopulated(data))
    /\ data.mode = None => (~OutfitGroupPopulated(data) /\ ~ItemGroupPopulated(data))
    /\ data.mode = Some("outfit") => ~ItemGroupPopulated(data)
    /\ data.mode = Some("item") => ~OutfitGroupPopulated(data)
    /\ data.mode = Some("outfit")
       => (data.outfit_items_list # <<>> <=> stage \notin {"MODE_STYLE", "OUTFIT_ITEMS"})
    /\ data.mode = Some("outfit")
       => (OutfitGroupPopulated(data) <=> data.outfit_items_list # <<>>)
    /\ data.mode = Some("item")
       => (data.single_item_type # None <=> stage \notin {"MODE_STYLE", "ITEM_TYPE"})
    /\ data.mode = Some("item")
       => (ItemGroupPopulated(data) <=> data.single_item_type # None)
    /\ stage = "COMPLETE" => (OutfitGroupPopulated(data) # ItemGroupPopulated(data))

\* An item-mode session entered through the pivot has finished with the
\* item group populated and the outfit group empty.
C11_Witness ==
    /\ stage = "COMPLETE"
    /\ event = "accept"
    /\ data.mode = Some("item")
    /\ data.single_item_type = Some("blazer")
    /\ data.match_existing = Some(TRUE)
    /\ data.wardrobe_items_to_match # None
    /\ ~OutfitGroupPopulated(data)

\* Every item of outfit_items_list has an entry in descriptions.
AllItemsDescribed(d) == Range[d.outfit_items_list] \subseteq DOMAIN d.descriptions

\* The items of outfit_items_list before position k.
ItemsBefore(d, k) == { d.outfit_items_list[i] : i \in 1..(k - 1) }

\* The position in outfit_items_list of the item being described.
CurrentIndex(d) == Len(d.outfit_items_list) - Len(d.outfit_items_pending)

\* C12 as stated: outfit_items_pending becomes empty exactly on the turn
\* after which every item of outfit_items_list has an entry in descriptions.
C12_PendingEmptiesWhenAllDescribedAsStated ==
    [][ (data.outfit_items_pending # <<>> /\ data'.outfit_items_pending = <<>>)
        <=> (~AllItemsDescribed(data) /\ AllItemsDescribed(data')) ]_vars

\* C12 (amended): outfit_items_pending is filled once, by the accepting
\* OUTFIT_ITEMS turn, only ever loses its head afterwards, and so goes from
\* non-empty to empty at most once (exactly once in a session that reaches
\* BODY_HEIGHT in outfit mode).  It becomes empty on the turn that makes the
\* LAST list item the current_item: the descriptions then cover the items
\* before the last one only.  Every item has an entry in descriptions from
\* the later turn that accepts the description of the last item and moves
\* the stage from OUTFIT_ITEM_DESC to BODY_HEIGHT.
C12_PendingEmptiesBeforeLastDescription ==
    /\ [][ data'.outfit_items_pending # data.outfit_items_pending
           => \/ /\ stage = "OUTFIT_ITEMS" /\ stage' = "OUTFIT_OCCASION"
                 /\ data.outfit_items_pending = <<>>
                 /\ data'.outfit_items_pending = data'.outfit_items_list
              \/ /\ stage \in {"OUTFIT_OCCASION", "OUTFIT_ITEM_DESC"}
                 /\ stage' = "OUTFIT_ITEM_DESC"
                 /\ data.outfit_items_pending # <<>>
                 /\ data'.outfit_items_pending = Tail(data.outfit_items_pending)
                 /\ data'.current_item = Some(Head(data.outfit_items_pending)) ]_vars
    /\ [][ stage' = "OUTFIT_ITEMS" => stage \in {"MODE_STYLE", "OUTFIT_ITEMS"} ]_vars
    /\ [][ (data.outfit_items_pending # <<>> /\ data'.outfit_items_pending = <<>>)
           => /\ data'.current_item = Some(data'.outfit_items_list[Len(data'.outfit_items_list)])
              /\ DOMAIN data'.descriptions = ItemsBefore(data', Len(data'.outfit_items_list))
              /\ stage' = "OUTFIT_ITEM_DESC" ]_vars
    /\ [](stage = "OUTFIT_ITEM_DESC"
          => /\ CurrentIndex(data) \in 1..Len(data.outfit_items_list)
             /\ data.current_item = Some(data.outfit_items_list[CurrentIndex(data)])
             /\ DOMAIN data.descriptions = ItemsBefore(data, CurrentIndex(data)))
    /\ [][ (stage = "OUTFIT_ITEM_DESC" /\ stage' = "BODY_HEIGHT")
           => /\ data.outfit_items_pending = <<>>
              /\ data'.outfit_items_pending = <<>>
              /\ AllItemsDescribed(data') ]_vars
    /\ []((data.mode = Some("outfit")
           /\ stage \in {"BODY_HEIGHT", "BODY_WEIGHT", "BODY_AGE", "COMPLETE"})
          => (data.outfit_items_pending = <<>> /\ AllItemsDescribed(data)))

\* The queue has just emptied while the last of three items has no
\* description yet.
C12_Witness ==
    /\ stage = "OUTFIT_ITEM_DESC"
    /\ event = "accept"
    /\ data.outfit_items_list = << "jeans", "t-shirt", "blazer" >>
    /\ data.outfit_items_pending = <<>>
    /\ data.current_item = Some("blazer")
    /\ DOMAIN data.descriptions = { "jeans", "t-shirt" }

\* A process step that took the single-item pivot.
Pivoted ==
    /\ stage = "OUTFIT_ITEMS"
    /\ stage' = "ITEM_MATCH_WARDROBE"
    /\ event' = "accept"
    /\ data'.mode = Some("item")

\* A process call at OUTFIT_ITEMS whose stripped input is not empty and has
\* no comma.
NoCommaAnswer ==
    /\ ProcessStep
    /\ stage = "OUTFIT_ITEMS"
    /\ ~Falsy(Trimmed(user_input'))
    /\ ~Contains[Val(Trimmed(user_input')), ","]

\* C13 as stated: a non-empty answer without a comma whose split on
\* non-alphanumeric boundaries has exactly one token of the item-type
\* vocabulary is accepted and pivots into item mode.
C13_SingleItemPivotsAsStated ==
    [][ (NoCommaAnswer
         /\ count_item_tokens[tokens_alnum[lower[Val(Trimmed(user_input'))]]] = 1)
        => Pivoted ]_vars

\* C13 (amended): a non-empty answer without a comma pivots into item mode
\* exactly when the pattern \b(and|&|plus)\b finds no conjunction in it and its
\* lowercase form, split on runs of characters that are neither letters,
\* digits nor hyphens, has exactly one token of the item-type vocabulary;
\* otherwise it is rejected with stage and data unchanged.  So "blazer" and
\* "flip-flops" pivot, "blazer plus" (conjunction) and "denim-jacket" (one
\* hyphenated token, not in the vocabulary) are rejected.
C13_SingleItemPivots ==
    [][ NoCommaAnswer
        => \E x \in { Val(Trimmed(user_input')) } :
           /\ Pivoted <=> (~has_conjunction[x] /\ count_item_tokens[tokens_hyphen[lower[x]]] = 1)
           /\ ~Pivoted => (stage' = stage /\ data' = data /\ event' = "reject")
           /\ x \in {"blazer", "flip-flops"} => Pivoted
           /\ x \in {"blazer plus", "denim-jacket", "jeans hat", "jeans and hoodie", "hello"}
              => ~Pivoted ]_vars

\* The pivot has fired on an answer whose only vocabulary token is
\* hyphenated.
C13_Witness ==
    /\ stage = "ITEM_MATCH_WARDROBE"
    /\ event = "accept"
    /\ user_input = Some("flip-flops")
    /\ data.mode = Some("item")
    /\ data.outfit_items_raw = None

\* C14: when the single-item pivot fires at OUTFIT_ITEMS the call sets mode
\* to "item", sets single_item_type to the whole trimmed answer, moves the
\* stage to ITEM_MATCH_WARDROBE and returns expect="choice" with choices
\* ["yes","no"]; style, outfit_items_list, outfit_items_pending, occasion,
\* descriptions and body are left unchanged.  The answer "blazer" fires it.
C14_PivotFrame ==
    /\ [][ (ProcessStep /\ stage = "OUTFIT_ITEMS" /\ stage' = "ITEM_MATCH_WARDROBE")
           => /\ data'.mode = Some("item")
              /\ data'.single_item_type = Trimmed(user_input')
              /\ payload' # None
              /\ Val(payload').stage = "ITEM_MATCH_WARDROBE"
              /\ Val(payload').expect = "choice"
              /\ Val(payload').choices = << "yes", "no" >>
              /\ Val(payload').data.mode = Some("item")
              /\ Val(payload').data.single_item_type = Trimmed(user_input')
              /\ data'.style = data.style
              /\ data'.outfit_items_list = data.outfit_items_list
              /\ data'.outfit_items_pending = data.outfit_items_pending
              /\ data'.occasion = data.occasion
              /\ data'.descriptions = data.descriptions
              /\ data'.body = data.body ]_vars
    /\ [][ (ProcessStep /\ stage = "OUTFIT_ITEMS" /\ user_input' = Some("blazer"))
           => (stage' = "ITEM_MATCH_WARDROBE" /\ data'.single_item_type = Some("blazer")) ]_vars

\* The pivot has fired on an answer of two words given with surrounding
\* blanks.
C14_Witness ==
    /\ stage = "ITEM_MATCH_WARDROBE"
    /\ event = "accept"
    /\ user_input = Some("  Navy Blazer ")
    /\ data.mode = Some("item")
    /\ data.single_item_type = Some("Navy Blazer")
    /\ data.style = Some("casual")
    /\ Val(payload).choices = << "yes", "no" >>

\* The words of a chunk: its lowercase form split on blanks.
WordsOf(chunk) == Range[split[collapse_ws[lower[chunk]], " "]]

\* A chunk that is suspicious in the words of the specification: it has a
\* conjunction word, or at least two distinct item-type tokens.
SuspiciousChunk(chunk) ==
    \/ WordsOf(chunk) \cap { "and", "&", "plus" } # {}
    \/ Cardinality(Range[tokens_hyphen[lower[chunk]]] \cap ITEM_TYPE_TOKENS) >= 2

\* A process call at OUTFIT_ITEMS whose stripped input has a comma.
CommaAnswer ==
    /\ ProcessStep
    /\ stage = "OUTFIT_ITEMS"
    /\ ~Falsy(Trimmed(user_input'))
    /\ Contains[Val(Trimmed(user_input')), ","]

\* C15: at OUTFIT_ITEMS an input with commas is rejected, stage and data
\* unchanged, whenever one of its chunks has a conjunction word ("and", "&",
\* "plus") or at least two distinct item-type tokens; "t-shirt hat, jeans"
\* is rejected.
C15_SuspiciousChunkRejected ==
    [][ CommaAnswer
        => \E chunks \in { raw_chunks_of[Val(Trimmed(user_input'))] } :
           /\ (\E i \in 1..Len(chunks) : SuspiciousChunk(chunks[i]))
              => (stage' = stage /\ data' = data /\ event' = "reject")
           /\ user_input' = Some("t-shirt hat, jeans")
              => (stage' = stage /\ data' = data /\ event' = "reject") ]_vars

\* C16: at OUTFIT_ITEMS an input with commas is accepted iff it has at least
\* one non-empty chunk, no chunk is suspicious and every chunk has an
\* item-type token; on acceptance outfit_items_list is the trimmed non-empty
\* chunks in input order, duplicates kept, outfit_items_pending is an equal
\* list, mode stays "outfit" and the stage becomes OUTFIT_OCCASION with
\* expect="choice" and choices ["specific","daily"].
C16_CommaListAccepted ==
    [][ CommaAnswer
        => \E chunks \in { raw_chunks_of[Val(Trimmed(user_input'))] } :
           \E acceptable \in { /\ chunks # <<>>
                               /\ \A i \in 1..Len(chunks) : ~SuspiciousChunk(chunks[i])
                               /\ \A i \in 1..Len(chunks) : has_item_type_token(chunks[i]) } :
           /\ acceptable <=> (event' = "accept")
           /\ event' = "accept"
              => /\ stage' = "OUTFIT_OCCASION"
                 /\ data'.outfit_items_list = chunks
                 /\ data'.outfit_items_pending = chunks
                 /\ data'.mode = Some("outfit")
                 /\ data.mode = Some("outfit")
                 /\ payload' # None
                 /\ Val(payload').expect = "choice"
                 /\ Val(payload').choices = << "specific", "daily" >>
           /\ event' # "accept"
              => (event' = "reject" /\ stage' = stage /\ data' = data) ]_vars

\* The fields of SessionData that Scenario A speaks of.
ScenarioFields(d) ==
    [ mode |-> d.mode, style |-> d.style, items |-> d.outfit_items_list,
      pending |-> d.outfit_items_pending, current |-> d.current_item,
      occasion |-> d.occasion, descriptions |-> d.descriptions, body |-> d.body ]

\* The inputs of Scenario A after the bootstrap call, in order.
ScenarioA ==
    << "outfit", "casual", "jeans, t-shirt, blazer", "daily",
       "blue, slim", "white, cotton", "black, tailored", "175", "70", "28" >>

\* The stage after k inputs of Scenario A.
ScenarioAStage ==
    << "MODE_STYLE", "OUTFIT_ITEMS", "OUTFIT_OCCASION", "OUTFIT_ITEM_DESC",
       "OUTFIT_ITEM_DESC", "OUTFIT_ITEM_DESC", "BODY_HEIGHT", "BODY_WEIGHT",
       "BODY_AGE", "COMPLETE" >>

\* The descriptions after the first k items of Scenario A are described.
ScenarioADescriptions(k) ==
    [ item \in { << "jeans", "t-shirt", "blazer" >>[i] : i \in 1..k }
        |-> CASE item = "jeans"   -> "blue, slim"
              [] item = "t-shirt" -> "white, cotton"
              [] item = "blazer"  -> "black, tailored" ]

\* The body after the first k measurements of Scenario A are given.
ScenarioABody(k) ==
    [ key \in { << "height_cm", "weight_kg", "age" >>[i] : i \in 1..k }
        |-> CASE key = "height_cm" -> Float(175)
              [] key = "weight_kg" -> Float(70)
              [] key = "age"       -> 28 ]

\* The session after the bootstrap call and the first k inputs of
\* Scenario A, as the scenario expects it.
ScenarioAFields(k) ==
    [ mode         |-> IF k >= 1 THEN Some("outfit") ELSE None,
      style        |-> IF k >= 2 THEN Some("casual") ELSE None,
      items        |-> IF k >= 3 THEN << "jeans", "t-shirt", "blazer" >> ELSE <<>>,
      pending      |-> CASE k = 3 -> << "jeans", "t-shirt", "blazer" >>
                         [] k = 4 -> << "t-shirt", "blazer" >>
                         [] k = 5 -> << "blazer" >>
                         [] OTHER -> <<>>,
      current      |-> CASE k = 4 -> Some("jeans")
                         [] k = 5 -> Some("t-shirt")
                         [] k >= 6 -> Some("blazer")
                         [] OTHER -> None,
      occasion     |-> IF k >= 4 THEN Some("daily") ELSE None,
      descriptions |-> ScenarioADescriptions(IF k <= 4 THEN 0 ELSE IF k >= 7 THEN 3 ELSE k - 4),
      body         |-> ScenarioABody(IF k <= 7 THEN 0 ELSE k - 7) ]

\* The session is where Scenario A expects it after k inputs.
AtScenarioA(k, st, d) ==
    /\ st = (IF k = 0 THEN "MODE_SELECTION" ELSE ScenarioAStage[k])
    /\ ScenarioFields(d) = ScenarioAFields(k)

\* C17: Scenario A.  After the bootstrap call of a new Session, the inputs
\* "outfit", "casual", "jeans, t-shirt, blazer", "daily", "blue, slim",
\* "white, cotton", "black, tailored", "175", "70", "28" are accepted one
\* after the other with no rejection, and the session ends in COMPLETE with
\* outfit_items_list = [jeans, t-shirt, blazer], the three descriptions in
\* that order and body = {height_cm: 175.0, weight_kg: 70.0, age: 28}.
C17_ScenarioA ==
    /\ [][ (ProcessStep /\ stage = "START") => AtScenarioA(0, stage', data') ]_vars
    /\ [][ \A k \in 0..(Len(ScenarioA) - 1) :
             (ProcessStep /\ AtScenarioA(k, stage, data) /\ user_input' = Some(ScenarioA[k + 1]))
             => (event' = "accept" /\ raised' = None /\ AtScenarioA(k + 1, stage', data')) ]_vars
    /\ [](AtScenarioA(Len(ScenarioA), stage, data)
          => /\ stage = "COMPLETE"
             /\ data.outfit_items_list = << "jeans", "t-shirt", "blazer" >>
             /\ data.descriptions = [ item \in {"jeans", "t-shirt", "blazer"} |->
                                        CASE item = "jeans"   -> "blue, slim"
                                          [] item = "t-shirt" -> "white, cotton"
                                          [] item = "blazer"  -> "black, tailored" ]
             /\ data.body = ("height_cm" :> Float(175)) @@ ("weight_kg" :> Float(70)) @@ ("age" :> 28))

\* Scenario A has been played to its end.
C17_Witness ==
    /\ AtScenarioA(Len(ScenarioA), stage, data)
    /\ event = "accept"
    /\ user_input = Some("28")
    /\ Val(payload).done

\* C18: a payload is an immutable record of its turn: no later process call
\* changes any field of a payload already returned, the contents of its data
\* snapshot (outfit_items, descriptions, body) included.
C18_PayloadImmutable ==
    [][ (ProcessStep /\ payload # None)
        => payload_view(Val(payload), data') = Val(payload) ]_vars

\* C19: in every payload returned by process the choices list is empty
\* unless expect is "choice", and is non-empty whenever expect is "choice".
C19_ChoicesIffExpectChoice ==
    payload # None
    => /\ Val(payload).expect \in { "text", "choice" }
       /\ Val(payload).expect = "choice" <=> Val(payload).choices # <<>>

\* A rejected answer at ITEM_MATCH_WARDROBE has repeated the two choices.
C19_Witness ==
    /\ stage = "ITEM_MATCH_WARDROBE"
    /\ event = "reject"
    /\ user_input = Some("maybe")
    /\ Val(payload).expect = "choice"
    /\ Val(payload).choices = << "yes", "no" >>

\* A text with no blank at either end.
IsTrimmed(s) == s = "" \/ (~IsSpace(Ch(s, 1)) /\ ~IsSpace(Ch(s, Len(s))))

\* An optional text that is unset or trimmed.
TrimmedOrUnset(o) == o = None \/ IsTrimmed(Val(o))

\* Every text stored in SessionData is trimmed.
StoredTextsTrimmed(d) ==
    /\ TrimmedOrUnset(d.mode)
    /\ TrimmedOrUnset(d.style)
    /\ TrimmedOrUnset(d.outfit_items_raw)
    /\ TrimmedOrUnset(d.current_item)
    /\ TrimmedOrUnset(d.occasion)
    /\ TrimmedOrUnset(d.single_item_type)
    /\ TrimmedOrUnset(d.wardrobe_items_to_match)
    /\ \A i \in 1..Len(d.outfit_items_list) : IsTrimmed(d.outfit_items_list[i])
    /\ \A i \in 1..Len(d.outfit_items_pending) : IsTrimmed(d.outfit_items_pending[i])
    /\ \A k \in DOMAIN d.descriptions : IsTrimmed(k) /\ IsTrimmed(d.descriptions[k])

\* An input is absent, empty, or made of blanks only.
NoAnswer(raw) == raw = None \/ \A i \in 1..Len(Val(raw)) : IsSpace(Ch(Val(raw), i))

\* C20: absent, empty and whitespace-only input is no answer: at every stage
\* other than START and COMPLETE it is rejected with stage and data
\* unchanged.  An input with leading or trailing whitespace is handled
\* exactly as its trimmed form: the call leaves the stage, the data and the
\* payload that the handler of the stage gives for the trimmed text.  Every
\* text stored in SessionData is trimmed.
C20_BlankIsNoAnswerAndInputTrimmed ==
    /\ [][ (ProcessStep /\ stage \in HandlerStages /\ NoAnswer(user_input'))
           => (stage' = stage /\ data' = data /\ event' = "reject" /\ payload' # None) ]_vars
    /\ [][ (ProcessStep /\ user_input' # None)
           => \E r \in { dispatch(stage, data, Some(strip[Val(user_input')])) } :
              /\ stage' = r.stage
              /\ data' = r.data
              /\ event' = r.event
              /\ raised' = r.exc
              /\ r.reply # None
                 => payload' = Some(payload_of(r.stage, r.data, debug_clean, Val(r.reply))) ]_vars
    /\ [][ (ProcessStep /\ stage = "MODE_SELECTION" /\ user_input' \in { Some(" Item\t"), Some("Item") })
           => (stage' = "MODE_STYLE" /\ data'.mode = Some("item")) ]_vars
    /\ [][ (ProcessStep /\ stage = "OUTFIT_ITEMS" /\ user_input' = Some("  Navy Blazer "))
           => data'.single_item_type = Some("Navy Blazer") ]_vars
    /\ [] StoredTextsTrimmed(data)

\* An answer given with a blank before and a tab after has been accepted as
\* its trimmed form.
C20_Witness ==
    /\ stage = "MODE_STYLE"
    /\ event = "accept"
    /\ user_input = Some(" Item\t")
    /\ data.mode = Some("item")

\* What C21 says of one choice stage: the answer is accepted exactly when
\* its lowercase form is one of the two words, and a rejected answer leaves
\* stage and data alone and is re-offered the two words.
ChoiceRule(st, words) ==
    (ProcessStep /\ stage = st)
    => \E x \in { Trimmed(user_input') } :
       \E listed \in { x # None /\ \E i \in 1..Len(words) : lower[Val(x)] = words[i] } :
          /\ listed <=> (event' = "accept")
          /\ listed => stage' # st
          /\ ~listed
             => /\ event' = "reject"
                /\ stage' = st
                /\ data' = data
                /\ payload' # None
                /\ Val(payload').expect = "choice"
                /\ Val(payload').choices = words

\* C21: in the three choice stages the input is accepted iff, compared
\* case-insensitively, it is one of the two listed words: MODE_SELECTION
\* {outfit, item}, OUTFIT_OCCASION {specific, daily}, ITEM_MATCH_WARDROBE
\* {yes, no}.  On acceptance mode and occasion are stored lowercased and
\* match_existing is true for yes and false for no; on rejection the payload
\* re-offers the same two choices with expect="choice".
C21_ChoiceStages ==
    /\ [][ ChoiceRule("MODE_SELECTION", << "outfit", "item" >>) ]_vars
    /\ [][ ChoiceRule("OUTFIT_OCCASION", << "specific", "daily" >>) ]_vars
    /\ [][ ChoiceRule("ITEM_MATCH_WARDROBE", << "yes", "no" >>) ]_vars
    /\ [][ (ProcessStep /\ stage = "MODE_SELECTION" /\ event' = "accept")
           => data'.mode = Some(lower[Val(Trimmed(user_input'))]) ]_vars
    /\ [][ (ProcessStep /\ stage = "OUTFIT_OCCASION" /\ event' = "accept")
           => data'.occasion = Some(lower[Val(Trimmed(user_input'))]) ]_vars
    /\ [][ (ProcessStep /\ stage = "ITEM_MATCH_WARDROBE" /\ event' = "accept")
           => data'.match_existing = Some(lower[Val(Trimmed(user_input'))] = "yes") ]_vars
    /\ [][ (ProcessStep /\ stage = "MODE_SELECTION" /\ user_input' = Some("Item"))
           => data'.mode = Some("item") ]_vars
    /\ [][ (ProcessStep /\ stage = "OUTFIT_OCCASION" /\ user_input' = Some("Specific"))
           => data'.occasion = Some("specific") ]_vars
    /\ [][ (ProcessStep /\ stage = "ITEM_MATCH_WARDROBE" /\ user_input' = Some("No"))
           => data'.match_existing = Some(FALSE) ]_vars

\* The answer "No", capitalised, has been accepted and stored as false.
C21_Witness ==
    /\ stage = "ITEM_DESC"
    /\ event = "accept"
    /\ user_input = Some("No")
    /\ data.match_existing = Some(FALSE)

\* What C22 says of one free-text stage, ok being the stage's vocabulary
\* test on the stripped answer: the answer is accepted exactly when it is
\* not empty and passes the test, and is otherwise rejected with stage and
\* data unchanged.
FreeTextRule(st, ok) ==
    (ProcessStep /\ stage = st)
    => \E passes \in { ~Falsy(Trimmed(user_input')) /\ ok } :
          /\ passes <=> (event' = "accept")
          /\ ~passes => (event' = "reject" /\ stage' = st /\ data' = data)

\* The stripped text of the answer being processed, "" when it is absent.
Answer == IF user_input' = None THEN "" ELSE strip[Val(user_input')]

\* C22: in the free-text stages the input is accepted iff it passes the
\* stage's vocabulary predicate: MODE_STYLE iff it has a letter and a domain
\* word; ITEM_TYPE iff it has an item-type token; OUTFIT_ITEM_DESC,
\* ITEM_DESC and ITEM_WARDROBE_ITEMS iff it has a domain word.  On
\* acceptance the raw trimmed text is stored (style, single_item_type,
\* descriptions[item], wardrobe_items_to_match).
C22_FreeTextStages ==
    /\ [][ FreeTextRule("MODE_STYLE", has_letter[Answer] /\ has_domain_words(Answer)) ]_vars
    /\ [][ FreeTextRule("ITEM_TYPE", has_item_type_token(Answer)) ]_vars
    /\ [][ FreeTextRule("OUTFIT_ITEM_DESC", has_domain_words(Answer)) ]_vars
    /\ [][ FreeTextRule("ITEM_DESC", has_domain_words(Answer)) ]_vars
    /\ [][ FreeTextRule("ITEM_WARDROBE_ITEMS", has_domain_words(Answer)) ]_vars
    /\ [][ (ProcessStep /\ event' = "accept")
           => /\ stage = "MODE_STYLE" => data'.style = Some(Answer)
              /\ stage = "ITEM_TYPE" => data'.single_item_type = Some(Answer)
              /\ stage = "ITEM_WARDROBE_ITEMS" => data'.wardrobe_items_to_match = Some(Answer)
              /\ stage = "OUTFIT_ITEM_DESC"
                 => data'.descriptions = DictSet(data.descriptions, Val(data.current_item), Answer)
              /\ stage = "ITEM_DESC"
                 => data'.descriptions = DictSet(data.descriptions, Val(data.single_item_type), Answer) ]_vars
    /\ [][ ProcessStep
           => /\ (stage = "MODE_STYLE" /\ Answer = "casual") => event' = "accept"
              /\ (stage = "MODE_STYLE" /\ Answer \in {"2000", "hello", "outfit"}) => event' = "reject"
              /\ (stage = "ITEM_TYPE" /\ Answer = "T-Shirt") => event' = "accept"
              /\ (stage = "ITEM_TYPE" /\ Answer \in {"casual", "hello"}) => event' = "reject"
              /\ (stage = "ITEM_DESC" /\ Answer = "off-white, down to the waist") => event' = "accept"
              /\ (stage = "ITEM_DESC" /\ Answer \in {"175", "hello"}) => event' = "reject"
              /\ (stage = "ITEM_WARDROBE_ITEMS" /\ Answer = "dark jeans, white shirt") => event' = "accept"
              /\ (stage = "ITEM_WARDROBE_ITEMS" /\ Answer \in {"yes", "hello"}) => event' = "reject"
              /\ (stage = "OUTFIT_ITEM_DESC" /\ Answer = "blue, slim") => event' = "accept"
              /\ (stage = "OUTFIT_ITEM_DESC" /\ Answer = "hello") => event' = "reject" ]_vars

\* The description of a single item, hyphenated colour included, has been
\* accepted and stored as typed.
C22_Witness ==
    /\ stage = "BODY_HEIGHT"
    /\ event = "accept"
    /\ user_input = Some("off-white, down to the waist")
    /\ data.single_item_type = Some("T-Shirt")
    /\ data.descriptions = ("T-Shirt" :> "off-white, down to the waist")

\* The nine keys every data snapshot has.
SnapshotKeys ==
    { "mode", "style", "occasion", "outfit_items", "single_item_type", "match_existing",
      "wardrobe_items_to_match", "descriptions", "body" }

\* C23: the data snapshot of every payload has the nine keys mode, style,
\* occasion, outfit_items, single_item_type, match_existing,
\* wardrobe_items_to_match, descriptions and body at every stage; it has the
\* generated summary (user_summary) iff the stage is COMPLETE, and the block
\* of *_clean shadow fields iff the stage is COMPLETE or the debug flag is
\* enabled.
C23_SnapshotKeys ==
    [][ (ProcessStep /\ payload' # None)
        => \E snap \in { Val(payload').data } :
           /\ Val(payload').stage = stage'
           /\ SnapshotKeys \subseteq DOMAIN snap
           /\ DOMAIN snap \subseteq SnapshotKeys \cup { "user_summary", "clean_debug" }
           /\ "user_summary" \in DOMAIN snap <=> stage' = "COMPLETE"
           /\ "clean_debug" \in DOMAIN snap <=> (stage' = "COMPLETE" \/ debug_clean)
           /\ "clean_debug" \in DOMAIN snap
              => DOMAIN snap["clean_debug"]
                 = { "style_clean", "outfit_items_list_clean", "single_item_type_clean",
                     "wardrobe_items_to_match_clean", "descriptions_clean" } ]_vars

\* With the debug flag off, the payload of the turn into COMPLETE carries
\* the summary and the block of shadow fields.
C23_Witness ==
    /\ stage = "COMPLETE"
    /\ event = "accept"
    /\ ~debug_clean
    /\ user_input = Some("1")
    /\ "user_summary" \in DOMAIN Val(payload).data
    /\ "clean_debug" \in DOMAIN Val(payload).data

\* The fields of SessionData that start as None.
OptionalFields ==
    { "mode", "style", "outfit_items_raw", "current_item", "occasion", "single_item_type",
      "match_existing", "wardrobe_items_to_match", "style_clean", "single_item_type_clean",
      "wardrobe_items_to_match_clean" }

\* C24: SessionData fields are never deleted, only set: a field that has
\* become non-null never returns to null, a key present in descriptions,
\* descriptions_clean or body is never removed, and outfit_items_list is
\* never changed after the accepting OUTFIT_ITEMS turn.
C24_FieldsOnlySet ==
    /\ [][ \A f \in OptionalFields : data[f] # None => data'[f] # None ]_vars
    /\ [][ /\ DOMAIN data.descriptions \subseteq DOMAIN data'.descriptions
           /\ DOMAIN data.descriptions_clean \subseteq DOMAIN data'.descriptions_clean
           /\ DOMAIN data.body \subseteq DOMAIN data'.body ]_vars
    /\ [][ data'.outfit_items_list # data.outfit_items_list
           => /\ stage = "OUTFIT_ITEMS"
              /\ stage' = "OUTFIT_OCCASION"
              /\ event' = "accept"
              /\ data.outfit_items_list = <<>> ]_vars
    /\ [][ data.outfit_items_list # <<>> => data'.outfit_items_list = data.outfit_items_list ]_vars

\* An outfit session has ended with everything it set still in place, the
\* last item described included.
C24_Witness ==
    /\ stage = "COMPLETE"
    /\ event = "accept"
    /\ data.outfit_items_list = << "jeans & more", "hat" >>
    /\ data.current_item = Some("hat")
    /\ DOMAIN data.descriptions = { "jeans & more", "hat" }
    /\ DOMAIN data.body = { "height_cm", "weight_kg", "age" }

\* C25: in every reachable state wardrobe_items_to_match is set only if
\* match_existing is true; a session that answered "no" at
\* ITEM_MATCH_WARDROBE never visits ITEM_WARDROBE_ITEMS and reaches COMPLETE
\* with wardrobe_items_to_match unset.
C25_WardrobeOnlyIfMatching ==
    /\ [](data.wardrobe_items_to_match # None => data.match_existing = Some(TRUE))
    /\ [](stage = "ITEM_WARDROBE_ITEMS" => data.match_existing = Some(TRUE))
    /\ [][ (ProcessStep /\ stage = "ITEM_MATCH_WARDROBE" /\ event' = "accept"
               /\ lower[Val(Trimmed(user_input'))] = "no")
           => /\ stage' = "ITEM_DESC"
              /\ data'.match_existing = Some(FALSE) ]_vars
    /\ [][ data.match_existing = Some(FALSE) => data'.match_existing = Some(FALSE) ]_vars

\* A session that answered "no" has reached COMPLETE without wardrobe items.
C25_Witness ==
    /\ stage = "COMPLETE"
    /\ event = "accept"
    /\ data.mode = Some("item")
    /\ data.match_existing = Some(FALSE)
    /\ data.wardrobe_items_to_match = None

\* C26: in every reachable state descriptions_clean has exactly the same key
\* set as descriptions.
C26_CleanKeysMatch == DOMAIN data.descriptions_clean = DOMAIN data.descriptions

\* Descriptions have been stored on both paths: a single item, and the second
\* of two outfit items.
C26_Witness ==
    \/ /\ stage = "BODY_HEIGHT"
       /\ DOMAIN data.descriptions = { "T-Shirt" }
       /\ data.descriptions_clean["T-Shirt"] = "white down waist"
    \/ /\ stage = "BODY_HEIGHT"
       /\ DOMAIN data.descriptions = { "jeans & more", "hat" }

\* C27: each process call appends exactly one inbound log line and then
\* exactly one outbound log line, in that order, on every path (bootstrap,
\* accept, reject, and calls made while in COMPLETE).
C27_TwoLogLinesPerCall ==
    [][ ProcessStep
        => /\ Len(log') = 2
           /\ log'[1] = InboundLine(Trimmed(user_input'), stage)
           /\ log'[2].dir = "<<"
           /\ payload' # None
           /\ log'[2] = OutboundLine(Val(payload')) ]_vars

C29_SessionsShareNoData ==
    [][ \/ /\ peer' = peer
           /\ \E r \in { dispatch(stage, data, Trimmed(user_input')) } :
                 /\ stage' = r.stage
                 /\ data' = r.data
                 /\ raised' = r.exc
                 /\ payload' = IF r.reply = None
                               THEN None
                               ELSE Some(payload_of(r.stage, r.data, debug_clean, Val(r.reply)))
        \/ /\ UNCHANGED <<stage, data, debug_clean, user_input, event, payload, raised>>
           /\ \E raw \in TwoInputs(peer.stage) :
                 \E r \in { dispatch(peer.stage, peer.data, Trimmed(raw)) } :
                    /\ peer'.stage = r.stage
                    /\ peer'.data = r.data
                    /\ peer'.payload = IF r.reply = None
                                       THEN None
                                       ELSE Some(payload_of(r.stage, r.data, debug_clean,
                                                            Val(r.reply))) ]_vars

\* Both sessions have run to the end, one about an item and the other about
\* an outfit, and each holds its own descriptions and body.
C29_Witness ==
    /\ stage = "COMPLETE"
    /\ peer.stage = "COMPLETE"
    /\ data.mode = Some("item")
    /\ peer.data.mode = Some("outfit")
    /\ DOMAIN data.descriptions = { "T-Shirt" }
    /\ DOMAIN peer.data.descriptions = { "jeans & more", "hat" }
    /\ data.body # peer.data.body
    /\ Val(peer.payload).done

\* C30: clean_description never introduces a token that is absent from its
\* input's token list and never removes a token that is present in the
\* domain vocabulary (including hyphenated domain terms such as "t-shirt" or
\* "off-white" and domain words that are also general stopwords such as
\* "down"). Checked on every description a session has stored next to its
\* cleaned text; a hyphenated term is a token of the hyphen-keeping split.
C30_CleanKeepsDomainTerms ==
    \A k \in DOMAIN data.descriptions :
        \E text \in { data.descriptions[k] } :
            \E out \in { data.descriptions_clean[k] } :
                /\ out = clean_description(text)
                /\ Range[tokenize(out)] \subseteq Range[tokenize(text)]
                /\ \A t \in Range[tokenize(text)] \cap DOMAIN_KEEP :
                      t \in Range[tokenize(out)]
                /\ \A t \in Range[tokens_hyphen[lower[text]]] \cap DOMAIN_KEEP :
                      t \in Range[tokens_hyphen[out]]

\* A text is in normal form: no upper-case letter, no white space at either
\* end, and no white space inside but single blanks.
NormalForm(s) ==
    /\ \A i \in 1..Len(s) : ~IsUpper(Ch(s, i))
    /\ s # "" => (~IsSpace(Ch(s, 1)) /\ ~IsSpace(Ch(s, Len(s))))
    /\ \A i \in 1..Len(s) : IsSpace(Ch(s, i)) => (Ch(s, i) = " " /\ ~IsSpace(Ch(s, i + 1)))

\* C31: normalize is idempotent: for every text x, normalize(normalize(x))
\* equals normalize(x) (lowercased, trimmed, internal whitespace runs
\* collapsed to one space).
C31_NormalizeIdempotent ==
    /\ [][ normalized'.text = normalized.result => normalized'.result = normalized.result ]_vars
    /\ [](NormalForm(normalized.result))

\* A text with an upper-case letter, white space in front and a run of white
\* space inside has been normalized.
C31_Witness ==
    /\ normalized.text = " B \tB"
    /\ normalized.result = "b b"

\* C32: the description handlers' assertions never fail: in every reachable
\* state with stage OUTFIT_ITEM_DESC, current_item is set (non-null), and in
\* every reachable state with stage ITEM_DESC or ITEM_WARDROBE_ITEMS,
\* single_item_type is set.
C32_AssertionsHold ==
    /\ stage = "OUTFIT_ITEM_DESC" => data.current_item # None
    /\ stage \in { "ITEM_DESC", "ITEM_WARDROBE_ITEMS" } => data.single_item_type # None
    /\ raised # Some("AssertionError")

\* A description has passed the assertion: the item of a pivoted session, or
\* the first item of an outfit with the second one now current.
C32_Witness ==
    \/ /\ stage = "BODY_HEIGHT"
       /\ event = "accept"
       /\ data.single_item_type = Some("Navy Blazer")
       /\ "Navy Blazer" \in DOMAIN data.descriptions
    \/ /\ stage = "OUTFIT_ITEM_DESC"
       /\ event = "accept"
       /\ data.current_item = Some("t-shirt")
       /\ DOMAIN data.descriptions = { "jeans" }

\* C33: in every reachable state with stage OUTFIT_OCCASION,
\* outfit_items_pending is non-empty and equal to outfit_items_list, so the
\* pop performed by the accepting occasion turn never fails.
C33_PendingReadyAtOccasion ==
    /\ stage = "OUTFIT_OCCASION"
       => /\ data.outfit_items_pending # <<>>
          /\ data.outfit_items_pending = data.outfit_items_list
    /\ raised # Some("IndexError")

\* The accepting occasion turn has popped the first of three pending items.
C33_Witness ==
    /\ stage = "OUTFIT_ITEM_DESC"
    /\ event = "accept"
    /\ data.occasion = Some("specific")
    /\ data.outfit_items_list = << "jeans", "t-shirt", "blazer" >>
    /\ data.current_item = Some("jeans")
    /\ data.outfit_items_pending = << "t-shirt", "blazer" >>

\* C34: description loop: in every reachable state with stage
\* OUTFIT_ITEM_DESC, current_item followed by outfit_items_pending is a
\* suffix of outfit_items_list; items are asked in list order; and the stage
\* moves to BODY_HEIGHT after exactly len(outfit_items_list) accepted
\* descriptions, at which point pending is empty and every item of
\* outfit_items_list is a key of descriptions. The loop is entered at the
\* first item, an accepted description of item k leads to item k + 1 while
\* k is not the last position and to BODY_HEIGHT when it is, and a rejected
\* one leaves the position.
C34_DescriptionLoop ==
    /\ [](stage = "OUTFIT_ITEM_DESC"
          => /\ data.current_item # None
             /\ << Val(data.current_item) >> \o data.outfit_items_pending
                = SubSeq(data.outfit_items_list, CurrentIndex(data),
                         Len(data.outfit_items_list)))
    /\ [][ (stage # "OUTFIT_ITEM_DESC" /\ stage' = "OUTFIT_ITEM_DESC")
           => /\ stage = "OUTFIT_OCCASION"
              /\ CurrentIndex(data') = 1
              /\ data'.outfit_items_list = data.outfit_items_list ]_vars
    /\ [][ (ProcessStep /\ stage = "OUTFIT_ITEM_DESC")
           => \E k \in { CurrentIndex(data) } :
                 /\ data'.outfit_items_list = data.outfit_items_list
                 /\ event' \in { "accept", "reject" }
                 /\ event' = "reject" => (stage' = stage /\ data' = data)
                 /\ event' = "accept"
                    => /\ data.outfit_items_list[k] \in DOMAIN data'.descriptions
                       /\ data'.descriptions[data.outfit_items_list[k]] = Val(user_input')
                       /\ IF k < Len(data.outfit_items_list)
                          THEN /\ stage' = "OUTFIT_ITEM_DESC"
                               /\ CurrentIndex(data') = k + 1
                               /\ data'.current_item = Some(data.outfit_items_list[k + 1])
                          ELSE /\ stage' = "BODY_HEIGHT"
                               /\ data'.outfit_items_pending = <<>>
                               /\ AllItemsDescribed(data') ]_vars

\* The third of three items has been described, in list order, and the
\* stage has moved on.
C34_Witness ==
    /\ stage = "BODY_HEIGHT"
    /\ event = "accept"
    /\ data.outfit_items_list = << "jeans", "t-shirt", "blazer" >>
    /\ data.outfit_items_pending = <<>>
    /\ data.descriptions["jeans"] = "blue, slim"
    /\ data.descriptions["t-shirt"] = "white, cotton"
    /\ data.descriptions["blazer"] = "black, tailored"

\* C35: the single-item pivot applies only to inputs without a comma: an
\* OUTFIT_ITEMS input that contains a comma and yields exactly one valid
\* chunk (e.g. "jeans,") is accepted in outfit mode with a one-item
\* outfit_items_list and moves to OUTFIT_OCCASION; mode stays "outfit" and
\* single_item_type stays unset.
C35_NoPivotWithComma ==
    [][ CommaAnswer
        => \E chunks \in { raw_chunks_of[Val(Trimmed(user_input'))] } :
           /\ ~Pivoted
           /\ stage' \in { "OUTFIT_ITEMS", "OUTFIT_OCCASION" }
           /\ data'.mode = Some("outfit")
           /\ data'.single_item_type = None
           /\ data'.single_item_type_clean = None
           /\ (/\ Len(chunks) = 1
               /\ ~SuspiciousChunk(chunks[1])
               /\ has_item_type_token(chunks[1]))
              => /\ event' = "accept"
                 /\ stage' = "OUTFIT_OCCASION"
                 /\ data'.outfit_items_list = << chunks[1] >>
           /\ user_input' = Some("jeans,")
              => /\ event' = "accept"
                 /\ stage' = "OUTFIT_OCCASION"
                 /\ data'.outfit_items_list = << "jeans" >> ]_vars

\* "jeans," has been accepted as an outfit of one item.
C35_Witness ==
    /\ stage = "OUTFIT_OCCASION"
    /\ event = "accept"
    /\ user_input = Some("jeans,")
    /\ data.mode = Some("outfit")
    /\ data.outfit_items_list = << "jeans" >>
    /\ data.single_item_type = None

\* The stages of the item path from ITEM_MATCH_WARDROBE on.
AfterItemType ==
    { "ITEM_MATCH_WARDROBE", "ITEM_WARDROBE_ITEMS", "ITEM_DESC", "BODY_HEIGHT",
      "BODY_WEIGHT", "BODY_AGE", "COMPLETE" }

\* The call that just returned was the pivot: it says so in its payload.
JustPivoted ==
    /\ payload # None
    /\ Val(payload).messages[1] = "Looks like you're after a single item."

\* A session that pivoted is at stage st with data d: on the item path past
\* ITEM_TYPE, with the outfit fields as the pivot found them.
PivotedSessionAt(st, d) ==
    /\ st \in AfterItemType
    /\ d.mode = Some("item")
    /\ d.outfit_items_list = <<>>
    /\ d.outfit_items_pending = <<>>
    /\ d.occasion = None
    /\ d.style # None
    /\ d.single_item_type # None
    /\ DOMAIN d.descriptions \subseteq { Val(d.single_item_type) }
    /\ st \in { "BODY_HEIGHT", "BODY_WEIGHT", "BODY_AGE", "COMPLETE" }
       => DOMAIN d.descriptions = { Val(d.single_item_type) }

\* C36: after a pivot, the session follows the item path without ever
\* visiting ITEM_TYPE, OUTFIT_OCCASION or OUTFIT_ITEM_DESC, and it reaches
\* COMPLETE with mode "item", outfit_items_list empty, occasion unset, the
\* style given at MODE_STYLE retained, and exactly one description keyed by
\* single_item_type. The pivot leaves the session on the item path past
\* ITEM_TYPE with the style it had, and every later call keeps it there
\* with the same style and item.
C36_AfterPivot ==
    /\ [][ Pivoted
           => /\ JustPivoted'
              /\ PivotedSessionAt(stage', data')
              /\ data'.style = data.style ]_vars
    /\ [][ PivotedSessionAt(stage, data)
           => /\ PivotedSessionAt(stage', data')
              /\ data'.style = data.style
              /\ data'.single_item_type = data.single_item_type ]_vars
    /\ [](JustPivoted => [](stage \in AfterItemType))

\* A session that pivoted on "blazer" has reached COMPLETE.
C36_Witness ==
    /\ stage = "COMPLETE"
    /\ event = "accept"
    /\ data.mode = Some("item")
    /\ data.style = Some("casual")
    /\ data.single_item_type = Some("blazer")
    /\ data.outfit_items_list = <<>>
    /\ data.occasion = None
    /\ DOMAIN data.descriptions = { "blazer" }

\* C37: stage and mode agree in every reachable state: when the stage is
\* OUTFIT_ITEMS, OUTFIT_OCCASION or OUTFIT_ITEM_DESC, mode is "outfit"; when
\* the stage is ITEM_TYPE, ITEM_MATCH_WARDROBE, ITEM_WARDROBE_ITEMS or
\* ITEM_DESC, mode is "item"; mode is unset exactly while the stage is START
\* or MODE_SELECTION.
C37_StageAndModeAgree ==
    /\ stage \in { "OUTFIT_ITEMS", "OUTFIT_OCCASION", "OUTFIT_ITEM_DESC" }
       => data.mode = Some("outfit")
    /\ stage \in { "ITEM_TYPE", "ITEM_MATCH_WARDROBE", "ITEM_WARDROBE_ITEMS", "ITEM_DESC" }
       => data.mode = Some("item")
    /\ data.mode = None <=> stage \in { "START", "MODE_SELECTION" }
    /\ data.mode \in { None, Some("outfit"), Some("item") }

\* A session that chose "outfit" stands at ITEM_MATCH_WARDROBE in item mode:
\* the pivot changed both together.
C37_Witness ==
    /\ stage = "ITEM_MATCH_WARDROBE"
    /\ data.mode = Some("item")
    /\ JustPivoted
    /\ user_input = Some("flip-flops")

\* The place of a stage in the order of C38; stages written side by side
\* there share a place.
StageRank(st) ==
    CASE st = "START"               -> 0
      [] st = "MODE_SELECTION"      -> 1
      [] st = "MODE_STYLE"          -> 2
      [] st = "OUTFIT_ITEMS"        -> 3
      [] st = "ITEM_TYPE"           -> 3
      [] st = "OUTFIT_OCCASION"     -> 4
      [] st = "OUTFIT_ITEM_DESC"    -> 5
      [] st = "ITEM_MATCH_WARDROBE" -> 5
      [] st = "ITEM_WARDROBE_ITEMS" -> 6
      [] st = "ITEM_DESC"           -> 7
      [] st = "BODY_HEIGHT"         -> 8
      [] st = "BODY_WEIGHT"         -> 9
      [] st = "BODY_AGE"            -> 10
      [] st = "COMPLETE"            -> 11

\* C38: the stage never moves backwards: under the order START <
\* MODE_SELECTION < MODE_STYLE < {OUTFIT_ITEMS, ITEM_TYPE} < OUTFIT_OCCASION
\* < OUTFIT_ITEM_DESC / ITEM_MATCH_WARDROBE < ITEM_WARDROBE_ITEMS < ITEM_DESC
\* < BODY_HEIGHT < BODY_WEIGHT < BODY_AGE < COMPLETE, every process call
\* leaves the stage equal or moves it strictly forward, so a stage that has
\* been left is never entered again. A step that changes the stage raises
\* its place, so no later step can bring back a stage of a lower or the same
\* place.
C38_StageNeverMovesBack ==
    [][ stage' = stage \/ StageRank(stage') > StageRank(stage) ]_vars

\* A pivoted session answered "No" and went from ITEM_MATCH_WARDROBE
\* straight to ITEM_DESC.
C38_Witness ==
    /\ stage = "ITEM_DESC"
    /\ event = "accept"
    /\ user_input = Some("No")
    /\ data.single_item_type = Some("blazer")
    /\ data.match_existing = Some(FALSE)

\* C39: in every payload returned by process, done is true iff the payload's
\* stage is COMPLETE, and the payload's stage equals the session's stage
\* after the call.
C39_DoneIffComplete ==
    [][ (ProcessStep /\ payload' # None)
        => /\ Val(payload').done <=> Val(payload').stage = "COMPLETE"
           /\ Val(payload').stage = stage'
           /\ Val(payload').done \in BOOLEAN ]_vars

\* The call that accepted the age returned the first payload with done set.
C39_Witness ==
    /\ stage = "COMPLETE"
    /\ event = "accept"
    /\ user_input = Some("120")
    /\ payload # None
    /\ Val(payload).done
    /\ Val(payload).stage = "COMPLETE"

\* The choices offered at a stage, in the order of the claim; none at a
\* stage that expects text.
ChoicesAt(st) ==
    CASE st = "MODE_SELECTION"      -> << "outfit", "item" >>
      [] st = "OUTFIT_OCCASION"     -> << "specific", "daily" >>
      [] st = "ITEM_MATCH_WARDROBE" -> << "yes", "no" >>
      [] OTHER                      -> <<>>

\* C40: in every payload returned by process, expect is "choice" iff the
\* payload's stage is MODE_SELECTION, OUTFIT_OCCASION or ITEM_MATCH_WARDROBE
\* (with choices [outfit,item], [specific,daily], [yes,no] respectively), on
\* both the arrival prompt and every re-prompt; at all other stages,
\* including COMPLETE, expect is "text".
C40_ExpectFollowsStage ==
    [][ (ProcessStep /\ payload' # None)
        => \E p \in { Val(payload') } :
           /\ p.expect = (IF ChoicesAt(p.stage) # <<>> THEN "choice" ELSE "text")
           /\ p.choices = ChoicesAt(p.stage)
           /\ event' \in { "bootstrap", "accept", "reject", "complete" } ]_vars

\* A rejected answer at MODE_SELECTION has been re-prompted with the two
\* modes.
C40_Witness ==
    /\ stage = "MODE_SELECTION"
    /\ event = "reject"
    /\ user_input = Some("outfits")
    /\ Val(payload).expect = "choice"
    /\ Val(payload).choices = << "outfit", "item" >>

====
